---------------------------- MODULE Spec2Model ----------------------------
(***************************************************************************)
(* aumai-kisanmitra: the mandi price tracker, the pest database and the    *)
(* rule-based farmer assistant of src/src/aumai_kisanmitra/core.py.        *)
(*                                                                         *)
(* Text is modelled by TLA+ strings over printable ASCII.  str.lower() and *)
(* the comparison of two str values are computed character by character    *)
(* from the characters' code points, as Python computes them.              *)
(***************************************************************************)
EXTENDS Integers, Sequences, FiniteSets, TLC

VARIABLES
    store,    \* MandiPriceTracker._store: the list of MandiPrice records
    added,    \* history: the records passed to add_price, in call order
    snapshot, \* the list the caller keeps from an earlier all_prices call
    pests,    \* PestDatabase._pests: the list of PestInfo records
    symptoms, \* the caller's list of observed symptoms, passed to identify
    words,    \* the words of the caller's query text, passed to respond
    rules,    \* core._KEYWORD_RESPONSES: the module's list of rules
    call,     \* the operation called last, with its arguments
    result    \* what that operation returned

vars == <<store, added, snapshot, pests, symptoms, words, rules, call, result>>

(***************************************************************************)
(* The rule table of the assistant, built when the module is loaded.       *)
(***************************************************************************)
\* core._KEYWORD_RESPONSES as the module builds it: the rule table (keywords,
\* answer, sources).
_KEYWORD_RESPONSES == <<
    [keywords |-> <<"price", "mandi", "rate", "sell", "market">>,
     answer |-> "Mandi prices vary by location and date. Use the 'prices' command or API to fetch current prices for your commodity and state. Agmarknet (agmarknet.gov.in) publishes daily mandi arrivals and prices across India.",
     sources |-> <<"Agmarknet (agmarknet.gov.in)", "eNAM (enam.gov.in)">>],
    [keywords |-> <<"pest", "insect", "bug", "disease", "fungus", "infection">>,
     answer |-> "Identify the pest or disease by its visible symptoms. Use the 'pest' command with symptom keywords to get matching pests and treatments. Always consult your local Krishi Vigyan Kendra (KVK) for confirmation.",
     sources |-> <<"ICAR Pest Management", "Krishi Vigyan Kendra network">>],
    [keywords |-> <<"fertilizer", "urea", "dap", "npk", "manure", "compost">>,
     answer |-> "Fertilizer requirements depend on soil test results. Get a soil health card from your state agriculture department. Base fertilizer application on NPK soil test recommendations. ICAR recommends integrated nutrient management combining inorganic and organic sources.",
     sources |-> <<"Soil Health Card scheme (soilhealth.dac.gov.in)", "ICAR nutrient management guidelines">>],
    [keywords |-> <<"irrigation", "water", "drip", "sprinkler", "rain">>,
     answer |-> "Irrigation scheduling should be based on crop stage and soil moisture. Drip irrigation can save 40-50% water compared to flood irrigation. PM Krishi Sinchayee Yojana provides subsidies for micro-irrigation systems.",
     sources |-> <<"PM Krishi Sinchayee Yojana", "ICAR crop water requirement data">>],
    [keywords |-> <<"seed", "variety", "sow", "hybrid", "certified">>,
     answer |-> "Use certified seeds from authorised dealers to ensure germination rates and disease resistance. State seed corporations and ICAR release improved varieties. Consult your block agriculture officer for variety recommendations suited to your region.",
     sources |-> <<"National Seeds Corporation (seedsindia.gov.in)", "ICAR variety releases">>],
    [keywords |-> <<"weather", "rain", "flood", "drought", "forecast">>,
     answer |-> "Monitor IMD weather forecasts at mausam.imd.gov.in. Agromet advisories are issued every Tuesday and Friday for all districts. Subscribe to SMS alerts from your state agriculture department.",
     sources |-> <<"IMD Agromet Advisory (agromet.imd.gov.in)", "Kisan Suvidha app">>],
    [keywords |-> <<"loan", "credit", "kcc", "finance", "money">>,
     answer |-> "Kisan Credit Card (KCC) provides short-term credit at 7% interest (4% with prompt repayment). Apply through your nearest bank or primary agriculture credit society. PM Kisan scheme provides Rs 6000 per year in three instalments.",
     sources |-> <<"Kisan Credit Card (RBI guidelines)", "PM-KISAN (pmkisan.gov.in)">>],
    [keywords |-> <<"insurance", "fasal bima", "pradhan mantri">>,
     answer |-> "Pradhan Mantri Fasal Bima Yojana (PMFBY) covers crop loss due to natural calamities at very low premium rates (2% for kharif, 1.5% for rabi). Enrol through banks or Common Service Centres before the cutoff date.",
     sources |-> <<"PMFBY (pmfby.gov.in)", "Krishi Rakshak portal">>],
    [keywords |-> <<"msp", "minimum support price", "procurement">>,
     answer |-> "The government announces MSP for 23 kharif and rabi crops. Procurement happens through FCI, NAFED, and state agencies. Register on eMitra or msprice portals for selling at MSP centres. Check latest MSP at agricoop.gov.in.",
     sources |-> <<"Commission for Agricultural Costs & Prices (cacp.gov.in)", "FCI (fci.gov.in)">>] >>

(***************************************************************************)
(* Bounds of the model.                                                    *)
(***************************************************************************)
MaxStore == 3

MaxSymptoms == 3

MaxWords == 3

(***************************************************************************)
(* Python values.                                                          *)
(***************************************************************************)
\* An optional argument (str | None) is a sequence of at most one string.
None == <<>>

Some(s) == <<s>>

\* bool(x) of an optional string: None and "" are both falsy.
Truthy(opt) == opt # None /\ opt[1] # ""

\* The printable ASCII characters in code point order: 32 (space) to 95, and
\* 97 to 126.  Code 96, the grave accent, cannot be written in a TLA+ string
\* and is left out of the model's alphabet.
AsciiLow == " !\"#$%&'()*+,-./0123456789:;<=>?@ABCDEFGHIJKLMNOPQRSTUVWXYZ[\\]^_"

AsciiHigh == "abcdefghijklmnopqrstuvwxyz{|}~"

\* The code point of every character of the alphabet.
CodePoint ==
    [c \in {SubSeq(AsciiLow, i, i) : i \in 1..Len(AsciiLow)}
            \cup {SubSeq(AsciiHigh, i, i) : i \in 1..Len(AsciiHigh)} |->
        IF \E i \in 1..Len(AsciiLow) : SubSeq(AsciiLow, i, i) = c
        THEN 31 + (CHOOSE i \in 1..Len(AsciiLow) : SubSeq(AsciiLow, i, i) = c)
        ELSE 96 + (CHOOSE i \in 1..Len(AsciiHigh) : SubSeq(AsciiHigh, i, i) = c)]

\* ord(c) of a one-character string.
Ord(c) == CodePoint[c]

\* chr(n).
Chr(n) ==
    IF n < 96 THEN SubSeq(AsciiLow, n - 31, n - 31)
    ELSE SubSeq(AsciiHigh, n - 96, n - 96)

\* str.lower() of one character: A..Z (65..90) map to a..z, the rest stays.
LowerChar(c) == IF Ord(c) >= 65 /\ Ord(c) <= 90 THEN Chr(Ord(c) + 32) ELSE c

RECURSIVE Lower(_)
\* str.lower().
Lower(s) == IF s = "" THEN "" ELSE LowerChar(Head(s)) \o Lower(Tail(s))

RECURSIVE StrLess(_, _)
\* a < b of two str values: lexicographic by code point.
StrLess(a, b) ==
    IF b = "" THEN FALSE
    ELSE IF a = "" THEN TRUE
    ELSE IF Head(a) = Head(b) THEN StrLess(Tail(a), Tail(b))
    ELSE Ord(Head(a)) < Ord(Head(b))

\* needle in haystack, of two str values (substring containment).
Contains(haystack, needle) ==
    \E i \in 1..(Len(haystack) - Len(needle) + 1) :
        SubSeq(haystack, i, i + Len(needle) - 1) = needle

RECURSIVE InsertByDate_before_equals(_, _, _)
\* InsertByDate of a sort that is not stable: p goes before the records with
\* an equal date.
InsertByDate_before_equals(sorted, p, reverse) ==
    IF sorted = <<>> THEN <<p>>
    ELSE IF (IF reverse THEN ~StrLess(p.date, Head(sorted).date)
                        ELSE ~StrLess(Head(sorted).date, p.date))
         THEN <<p>> \o sorted
         ELSE <<Head(sorted)>> \o InsertByDate_before_equals(Tail(sorted), p, reverse)

RECURSIVE InsertByDate(_, _, _)
\* One step of the stable sort on key=p.date: p goes right before the first
\* record it must precede, and so behind every record with an equal date.
InsertByDate(sorted, p, reverse) ==
    IF sorted = <<>> THEN <<p>>
    ELSE IF (IF reverse THEN StrLess(Head(sorted).date, p.date)
                        ELSE StrLess(p.date, Head(sorted).date))
         THEN <<p>> \o sorted
         ELSE <<Head(sorted)>> \o InsertByDate(Tail(sorted), p, reverse)

RECURSIVE SortedByDate(_, _)
\* sorted(seq, key=lambda p: p.date, reverse=reverse): list.sort is stable,
\* also with reverse=True, so records with equal dates keep the order of seq.
SortedByDate(seq, reverse) ==
    IF seq = <<>> THEN <<>>
    ELSE InsertByDate(SortedByDate(SubSeq(seq, 1, Len(seq) - 1), reverse),
                      seq[Len(seq)], reverse)

(***************************************************************************)
(* MandiPriceTracker.                                                      *)
(***************************************************************************)
\* The values the model draws the fields of a MandiPrice from.
Commodities == {"Rice", "WHEAT"}

\* A mandi and the state it lies in.
Mandis == {<<"Azadpur", "Delhi">>, <<"Khanna", "Punjab">>}

Dates == {"2026-02-20", "2026-02-21"}

\* models.MandiPrice, with valid (non-negative) prices.
MandiPrice ==
    {[commodity |-> c, market |-> m[1], state |-> m[2],
      min_price |-> 1800, max_price |-> 2200, modal_price |-> 2000,
      date |-> d] : c \in Commodities, m \in Mandis, d \in Dates}

\* The arguments the model calls the queries with.
CommodityArgs == {"rice", "RICE", "Wheat"}

StateArgs == {None, Some(""), Some("delhi"), Some("DELHI")}

MarketArgs == {"azadpur", "KHANNA"}

\* get_prices with reverse=True dropped: oldest first.
get_prices_oldest_first(st, commodity, state) ==
    LET comm_lower == Lower(commodity)
        ByCommodity(p) == Lower(p.commodity) = comm_lower
        results == SelectSeq(st, ByCommodity)
        ByState(p) == Lower(p.state) = Lower(state[1])
        filtered == IF Truthy(state) THEN SelectSeq(results, ByState) ELSE results
    IN  SortedByDate(filtered, FALSE)

\* get_prices with the state filter dropped.
get_prices_no_state_filter(st, commodity, state) ==
    LET comm_lower == Lower(commodity)
        ByCommodity(p) == Lower(p.commodity) = comm_lower
        results == SelectSeq(st, ByCommodity)
    IN  SortedByDate(results, TRUE)

\* get_prices comparing with the arguments as passed, not lowercased.
get_prices_args_as_passed(st, commodity, state) ==
    LET ByCommodity(p) == Lower(p.commodity) = commodity
        results == SelectSeq(st, ByCommodity)
        ByState(p) == Lower(p.state) = state[1]
        filtered == IF Truthy(state) THEN SelectSeq(results, ByState) ELSE results
    IN  SortedByDate(filtered, TRUE)

\* MandiPriceTracker.get_prices
get_prices(st, commodity, state) ==
    LET comm_lower == Lower(commodity)
        ByCommodity(p) == Lower(p.commodity) = comm_lower
        results == SelectSeq(st, ByCommodity)
        ByState(p) == Lower(p.state) = Lower(state[1])
        filtered == IF Truthy(state) THEN SelectSeq(results, ByState) ELSE results
    IN  SortedByDate(filtered, TRUE)

\* price_trend comparing the stored market as stored, not lowercased.
price_trend_market_as_stored(st, commodity, market) ==
    LET comm_lower == Lower(commodity)
        mkt_lower == Lower(market)
        Match(p) == Lower(p.commodity) = comm_lower /\ p.market = mkt_lower
    IN  SortedByDate(SelectSeq(st, Match), FALSE)

\* price_trend keeping a record when its commodity or its market matches.
price_trend_either_matches(st, commodity, market) ==
    LET comm_lower == Lower(commodity)
        mkt_lower == Lower(market)
        Match(p) == Lower(p.commodity) = comm_lower \/ Lower(p.market) = mkt_lower
    IN  SortedByDate(SelectSeq(st, Match), FALSE)

\* MandiPriceTracker.price_trend
price_trend(st, commodity, market) ==
    LET comm_lower == Lower(commodity)
        mkt_lower == Lower(market)
        Match(p) == Lower(p.commodity) = comm_lower /\ Lower(p.market) = mkt_lower
    IN  SortedByDate(SelectSeq(st, Match), FALSE)

\* add_price skipping a record equal to one already stored.
add_price_dedup(st, price) ==
    IF \E i \in DOMAIN st : st[i] = price THEN st ELSE Append(st, price)

\* add_price overwriting a stored record of the same commodity, market and
\* date instead of appending.
add_price_upsert(st, price) ==
    LET SameKey(q) ==
            q.commodity = price.commodity /\ q.market = price.market /\ q.date = price.date
        Other(q) == ~SameKey(q)
    IN  Append(SelectSeq(st, Other), price)

\* MandiPriceTracker.add_price: self._store.append(price)
add_price(st, price) == Append(st, price)

\* all_prices handing out the tracker's own list.
all_prices_returns_store(st) == [items |-> st, is_store |-> TRUE]

\* MandiPriceTracker.all_prices: list(self._store), a new list object holding
\* the items of the store.  A list object is modelled by its items and by
\* whether it is the very object self._store.
all_prices(st) == [items |-> st, is_store |-> FALSE]

\* tracker.add_price(price)
AddPrice ==
    /\ Len(added) < MaxStore
    /\ \E price \in MandiPrice :
        /\ store' = add_price(store, price)
        /\ added' = Append(added, price)
        /\ call' = [op |-> "add_price", price |-> price]
        /\ result' = None
    /\ snapshot' = IF snapshot # None /\ snapshot[1].is_store
                   THEN Some([snapshot[1] EXCEPT !.items = store'])
                   ELSE snapshot
    /\ UNCHANGED <<pests, symptoms, words, rules>>

\* tracker.get_prices(commodity, state)
GetPrices ==
    /\ \E commodity \in CommodityArgs, state \in StateArgs :
        /\ call' = [op |-> "get_prices", commodity |-> commodity, state |-> state]
        /\ result' = get_prices(store, commodity, state)
    /\ UNCHANGED <<store, added, snapshot, pests, symptoms, words, rules>>

\* tracker.price_trend(commodity, market)
PriceTrend ==
    /\ \E commodity \in CommodityArgs, market \in MarketArgs :
        /\ call' = [op |-> "price_trend", commodity |-> commodity, market |-> market]
        /\ result' = price_trend(store, commodity, market)
    /\ UNCHANGED <<store, added, snapshot, pests, symptoms, words, rules>>

\* tracker.all_prices()
AllPrices ==
    /\ call' = [op |-> "all_prices"]
    /\ result' = all_prices(store)
    /\ UNCHANGED <<store, added, snapshot, pests, symptoms, words, rules>>

\* MandiPriceTracker(): the store starts empty.
InitPrices ==
    /\ store = <<>>
    /\ added = <<>>
    /\ snapshot = None
    /\ pests = <<>>
    /\ symptoms = <<>>
    /\ words = <<>>
    /\ rules = _KEYWORD_RESPONSES
    /\ call = [op |-> "init"]
    /\ result = None

NextPrices == AddPrice \/ GetPrices \/ PriceTrend \/ AllPrices

SpecPrices == InitPrices /\ [][NextPrices]_vars

(***************************************************************************)
(* The caller of all_prices and the list it was handed.                    *)
(***************************************************************************)
\* The record the caller appends to its own list.
CallerRecords ==
    {p \in MandiPrice :
        p.commodity = "Rice" /\ p.market = "Azadpur" /\ p.date = "2026-02-20"}

\* list.remove(x): the first item equal to x is taken out.
ListRemove(items, x) ==
    LET first == CHOOSE i \in DOMAIN items :
                     items[i] = x /\ \A j \in 1..(i - 1) : items[j] # x
    IN  SubSeq(items, 1, first - 1) \o SubSeq(items, first + 1, Len(items))

\* The caller's list becomes items; when that list is the tracker's own list
\* object, the store changes with it.
MutateSnapshot(items) ==
    /\ snapshot' = Some([snapshot[1] EXCEPT !.items = items])
    /\ store' = IF snapshot[1].is_store THEN items ELSE store
    /\ call' = [op |-> "mutate_snapshot"]
    /\ result' = None
    /\ UNCHANGED <<added, pests, symptoms, words, rules>>

\* copy = tracker.all_prices(): the caller keeps the list it was handed.
KeepSnapshot ==
    /\ call.op = "all_prices"
    /\ snapshot' = Some(result)
    /\ call' = [op |-> "keep_snapshot"]
    /\ result' = None
    /\ UNCHANGED <<store, added, pests, symptoms, words, rules>>

\* copy.clear()
SnapshotClear ==
    /\ snapshot # None
    /\ MutateSnapshot(<<>>)

\* copy.append(price)
SnapshotAppend ==
    /\ snapshot # None
    /\ Len(snapshot[1].items) < MaxStore
    /\ \E price \in CallerRecords : MutateSnapshot(Append(snapshot[1].items, price))

\* copy.remove(copy[0])
SnapshotRemove ==
    /\ snapshot # None
    /\ snapshot[1].items # <<>>
    /\ MutateSnapshot(ListRemove(snapshot[1].items, snapshot[1].items[1]))

NextSnapshots ==
    \/ AddPrice
    \/ AllPrices
    \/ KeepSnapshot
    \/ SnapshotClear
    \/ SnapshotAppend
    \/ SnapshotRemove

SpecSnapshots == InitPrices /\ [][NextSnapshots]_vars

(***************************************************************************)
(* Several observations of one commodity in one mandi on one day.          *)
(***************************************************************************)
\* Observations of rice at Azadpur that differ in their modal price only,
\* or in their date.
SameMarketPrices ==
    {[commodity |-> "Rice", market |-> "Azadpur", state |-> "Delhi",
      min_price |-> 1800, max_price |-> 2200, modal_price |-> mo,
      date |-> d] : mo \in {1900, 2100}, d \in Dates}

\* tracker.add_price(price), with an observation of that mandi
AddSameMarketPrice ==
    /\ Len(added) < MaxStore
    /\ \E price \in SameMarketPrices :
        /\ store' = add_price(store, price)
        /\ added' = Append(added, price)
        /\ call' = [op |-> "add_price", price |-> price]
        /\ result' = None
    /\ UNCHANGED <<snapshot, pests, symptoms, words, rules>>

NextSameMarket == AddSameMarketPrice \/ GetPrices \/ PriceTrend

SpecSameMarket == InitPrices /\ [][NextSameMarket]_vars

(***************************************************************************)
(* The MandiPrice objects: construction, validation and assignment.        *)
(***************************************************************************)
\* How many observations the caller constructs and adds.
MaxRecords == 2

\* The prices the caller constructs an observation with: a negative price,
\* zero and a positive price.
PriceValues == {-1, 0, 1}

\* The keyword arguments of MandiPrice(...).
RawFields ==
    {[commodity |-> "Rice", market |-> "Azadpur", state |-> "Delhi",
      min_price |-> lo, max_price |-> hi, modal_price |-> mo,
      date |-> "2026-02-20"] : lo \in PriceValues, hi \in PriceValues, mo \in PriceValues}

\* The fields declared with Field(..., ge=0.0).
PriceFields == {"min_price", "max_price", "modal_price"}

\* The value the caller assigns to a field of an object it holds.
AssignedValues == {-1}

\* MandiPrice(**fields): pydantic validates each price against ge=0.0 and
\* raises ValidationError when one of them fails; otherwise the object holds
\* the fields as given.
MandiPrice_init(fields) ==
    IF fields.min_price >= 0 /\ fields.max_price >= 0 /\ fields.modal_price >= 0
    THEN [raised |-> FALSE, value |-> fields]
    ELSE [raised |-> TRUE, value |-> None]

\* tracker.add_price(MandiPrice(**fields)): when the constructor raises,
\* add_price is never called.
AddNewPrice ==
    /\ Len(added) < MaxRecords
    /\ \E fields \in RawFields :
        LET made == MandiPrice_init(fields)
        IN  IF made.raised
            THEN /\ call' = [op |-> "MandiPrice", fields |-> fields]
                 /\ UNCHANGED <<store, added>>
            ELSE /\ store' = add_price(store, made.value)
                 /\ added' = Append(added, made.value)
                 /\ call' = [op |-> "add_price", fields |-> fields]
    /\ result' = None
    /\ UNCHANGED <<snapshot, pests, symptoms, words, rules>>

\* price.<field> = value, on an object the caller holds.  add_price appended
\* the caller's object itself, and all_prices, get_prices and price_trend
\* return new lists of the stored objects themselves, so the object the
\* caller passed (via = "add_price") and the record it reads out of a
\* returned list (via = "all_prices") are both the stored object.
\* MandiPrice declares no frozen and no validate_assignment configuration:
\* the assignment is accepted and not validated.
SetField ==
    /\ \E i \in DOMAIN store, field \in PriceFields, value \in AssignedValues,
          via \in {"add_price", "all_prices"} :
        /\ store' = [store EXCEPT ![i][field] = value]
        /\ call' = [op |-> "setattr", via |-> via]
    /\ result' = None
    /\ UNCHANGED <<added, snapshot, pests, symptoms, words, rules>>

NextRecords == AddNewPrice \/ SetField

SpecRecords == InitPrices /\ [][NextRecords]_vars

(***************************************************************************)
(* PestDatabase.                                                           *)
(***************************************************************************)
\* core._RAW_PESTS: the static pest catalogue.
_RAW_PESTS == <<
    [name |-> "Brown Plant Hopper",
     affected_crops |-> <<"Rice">>,
     symptoms |-> <<"yellowing", "wilting", "hopperburn", "lodging">>,
     treatment |-> <<"Apply imidacloprid 17.8 SL @ 125 ml/ha", "Drain field for 3-4 days", "Apply BPMC 50 EC">>,
     prevention |-> <<"Use resistant varieties", "Avoid excessive nitrogen", "Maintain field drainage">>],
    [name |-> "Aphids",
     affected_crops |-> <<"Wheat", "Mustard", "Cotton", "Okra", "Groundnut">>,
     symptoms |-> <<"curling leaves", "yellowing", "sticky honeydew", "stunted growth", "sooty mould">>,
     treatment |-> <<"Spray dimethoate 30 EC @ 500 ml/ha", "Apply imidacloprid 17.8 SL @ 75 ml/ha", "Neem oil spray 5%">>,
     prevention |-> <<"Encourage natural predators (ladybird beetles)", "Avoid dense planting", "Remove weeds">>],
    [name |-> "Stem Borer",
     affected_crops |-> <<"Rice", "Maize", "Sugarcane", "Sorghum">>,
     symptoms |-> <<"dead heart", "white ear", "borer entry holes", "frass", "stem tunnelling">>,
     treatment |-> <<"Apply carbofuran 3G @ 20 kg/ha", "Release Trichogramma parasitoids", "Chlorpyrifos 20 EC">>,
     prevention |-> <<"Use light traps", "Destroy stubbles after harvest", "Balanced nitrogen application">>],
    [name |-> "Whitefly",
     affected_crops |-> <<"Cotton", "Tomato", "Brinjal", "Chilli", "Cucurbits">>,
     symptoms |-> <<"yellowing", "silver streaks", "sticky leaves", "sooty mould", "virus transmission">>,
     treatment |-> <<"Thiamethoxam 25 WG @ 100 g/ha", "Yellow sticky traps", "Neem seed kernel extract 5%">>,
     prevention |-> <<"Intercropping with marigold", "Remove infected plants", "Avoid over-irrigation">>],
    [name |-> "Thrips",
     affected_crops |-> <<"Chilli", "Cotton", "Onion", "Groundnut">>,
     symptoms |-> <<"silver streaks on leaves", "upward curling", "scarring", "bronzing">>,
     treatment |-> <<"Spinosad 45 SC @ 100 ml/ha", "Fipronil 5 SC @ 600 ml/ha">>,
     prevention |-> <<"Blue sticky traps", "Avoid planting near maize", "Reflective mulch">>],
    [name |-> "Red Spider Mite",
     affected_crops |-> <<"Cotton", "Brinjal", "Okra", "Beans", "Maize">>,
     symptoms |-> <<"bronze speckling", "webbing", "leaf drop", "yellowing">>,
     treatment |-> <<"Dicofol 18.5 EC @ 1.5 l/ha", "Sulphur 80 WP @ 2.5 kg/ha", "Abamectin 1.8 EC">>,
     prevention |-> <<"Overhead irrigation reduces mites", "Avoid dusty conditions", "Predatory mites">>],
    [name |-> "Mealy Bug",
     affected_crops |-> <<"Cotton", "Grapes", "Pomegranate", "Papaya">>,
     symptoms |-> <<"white cottony masses", "yellowing", "stunted growth", "sooty mould">>,
     treatment |-> <<"Profenofos 50 EC @ 1 l/ha", "Spray ethion 50 EC", "Release Cryptolaemus predators">>,
     prevention |-> <<"Destroy crop debris", "Ant management", "Avoid excess nitrogen">>],
    [name |-> "Helicoverpa (Bollworm)",
     affected_crops |-> <<"Cotton", "Tomato", "Chickpea", "Pigeonpea", "Maize">>,
     symptoms |-> <<"bored bolls/pods/fruit", "circular entry holes", "larval frass", "premature boll/pod drop">>,
     treatment |-> <<"Spinosad 45 SC @ 150 ml/ha", "Bt spray 750 g/ha", "Emamectin benzoate 5 SG">>,
     prevention |-> <<"Pheromone traps (5/ha)", "Use Bt cotton varieties", "Intercrop with sorghum">>],
    [name |-> "Cutworm",
     affected_crops |-> <<"Wheat", "Maize", "Vegetables", "Cotton">>,
     symptoms |-> <<"cut seedlings at ground level", "wilting", "night feeding">>,
     treatment |-> <<"Chlorpyrifos 20 EC @ 2.5 l/ha soil drench", "Poison bait (bran + chlorpyrifos)">>,
     prevention |-> <<"Deep ploughing in summer", "Remove weeds", "Flood irrigation before planting">>],
    [name |-> "Leaf Folder",
     affected_crops |-> <<"Rice">>,
     symptoms |-> <<"longitudinal folded leaves", "white leaf streaks", "feeding damage">>,
     treatment |-> <<"Chlorpyrifos 20 EC @ 1.5 l/ha", "Monocrotophos 36 WSC @ 750 ml/ha">>,
     prevention |-> <<"Balanced fertilisation", "Avoid dense planting", "Light traps">>],
    [name |-> "Jassid (Leafhopper)",
     affected_crops |-> <<"Cotton", "Groundnut", "Okra", "Brinjal">>,
     symptoms |-> <<"yellowing from leaf margins", "leaf curl downward", "burning appearance">>,
     treatment |-> <<"Imidacloprid 70 WG @ 35 g/ha", "Thiamethoxam 25 WG @ 80 g/ha">>,
     prevention |-> <<"Hairy-leaved varieties", "Avoid close planting", "Yellow sticky traps">>],
    [name |-> "Powdery Mildew",
     affected_crops |-> <<"Wheat", "Grapes", "Cucurbits", "Pea", "Mustard">>,
     symptoms |-> <<"white powdery patches", "yellowing below", "premature leaf drop", "stunted growth">>,
     treatment |-> <<"Sulphur 80 WP @ 2.5 kg/ha", "Propiconazole 25 EC @ 500 ml/ha", "Hexaconazole 5 EC">>,
     prevention |-> <<"Resistant varieties", "Avoid overhead irrigation", "Proper plant spacing">>],
    [name |-> "Blast (Rice Blast)",
     affected_crops |-> <<"Rice">>,
     symptoms |-> <<"diamond-shaped lesions", "eye-shaped spots", "neck rot", "panicle blast">>,
     treatment |-> <<"Tricyclazole 75 WP @ 300 g/ha", "Isoprothiolane 40 EC @ 750 ml/ha">>,
     prevention |-> <<"Balanced nitrogen", "Resistant varieties", "Silicon application">>],
    [name |-> "Late Blight",
     affected_crops |-> <<"Potato", "Tomato">>,
     symptoms |-> <<"water-soaked lesions", "white mouldy growth", "rapid wilting", "brown rotting tubers">>,
     treatment |-> <<"Metalaxyl + Mancozeb 72 WP @ 2 kg/ha", "Cymoxanil + Mancozeb">>,
     prevention |-> <<"Certified disease-free seed", "Avoid over-irrigation", "Copper fungicides preventively">>],
    [name |-> "Yellow Rust",
     affected_crops |-> <<"Wheat", "Barley">>,
     symptoms |-> <<"yellow stripe pustules", "yellow powder on leaves", "stunted growth">>,
     treatment |-> <<"Propiconazole 25 EC @ 500 ml/ha", "Tebuconazole 250 EW @ 750 ml/ha">>,
     prevention |-> <<"Resistant varieties", "Early sowing", "Balanced nutrition">>],
    [name |-> "Leaf Blight",
     affected_crops |-> <<"Rice", "Maize", "Wheat">>,
     symptoms |-> <<"water-soaked lesions turning brown", "leaf blighting", "straw-coloured patches">>,
     treatment |-> <<"Validamycin 3 L @ 2 l/ha", "Copper oxychloride 50 WP @ 3 kg/ha">>,
     prevention |-> <<"Balanced NPK", "Proper drainage", "Resistant varieties">>],
    [name |-> "Fruit Borer",
     affected_crops |-> <<"Brinjal", "Tomato", "Chilli">>,
     symptoms |-> <<"bored fruits", "dropping fruits", "larval frass at entry">>,
     treatment |-> <<"Emamectin benzoate 5 SG @ 220 g/ha", "Spinosad 45 SC @ 100 ml/ha">>,
     prevention |-> <<"Pheromone traps", "Remove damaged fruits", "Inter-cropping">>],
    [name |-> "Nematodes (Root Knot)",
     affected_crops |-> <<"Tomato", "Brinjal", "Groundnut", "Banana", "Cucurbits">>,
     symptoms |-> <<"root galls/knots", "stunting", "yellowing", "poor yield", "wilting">>,
     treatment |-> <<"Carbofuran 3G @ 1 kg ai/ha", "Phorate 10G @ 1 kg ai/ha", "Biocontrol with Paecilomyces">>,
     prevention |-> <<"Crop rotation with cereals", "Marigold inter-cropping", "Soil solarisation">>],
    [name |-> "Downy Mildew",
     affected_crops |-> <<"Maize", "Pearl Millet", "Grapes", "Cucurbits">>,
     symptoms |-> <<"downy white growth on underside", "chlorotic patches", "downcurled leaves">>,
     treatment |-> <<"Metalaxyl 8% + Mancozeb 64% WP @ 2.5 kg/ha", "Fosetyl-Al 80 WP">>,
     prevention |-> <<"Seed treatment with metalaxyl", "Avoid overhead irrigation", "Resistant varieties">>],
    [name |-> "Bacterial Wilt",
     affected_crops |-> <<"Tomato", "Brinjal", "Pepper", "Potato">>,
     symptoms |-> <<"sudden wilting", "vascular browning", "bacterial ooze in water test">>,
     treatment |-> <<"No effective chemical cure; remove and destroy infected plants", "Streptomycin sulphate as preventive">>,
     prevention |-> <<"Resistant varieties", "Soil sterilisation", "Crop rotation", "Avoid wounding roots">>],
    [name |-> "Caterpillar (Army Worm)",
     affected_crops |-> <<"Maize", "Sorghum", "Rice", "Wheat">>,
     symptoms |-> <<"ragged leaf feeding", "defoliation", "windowpane feeding", "frass">>,
     treatment |-> <<"Chlorpyrifos 20 EC @ 2.5 l/ha", "Emamectin benzoate 5 SG", "Spinetoram 11.7 SC">>,
     prevention |-> <<"Light traps", "Birds on field", "Early planting">>],
    [name |-> "Fall Armyworm",
     affected_crops |-> <<"Maize", "Sorghum", "Cotton", "Rice">>,
     symptoms |-> <<"ragged feeding in whorl", "frass like sawdust", "irregular holes in leaves">>,
     treatment |-> <<"Emamectin benzoate 5 SG @ 220 g/ha", "Spinetoram 11.7 SC @ 375 ml/ha", "Bt spray">>,
     prevention |-> <<"Intercrop with Napier grass", "Pheromone traps", "Avoid late planting">>],
    [name |-> "Diamond Back Moth",
     affected_crops |-> <<"Cabbage", "Cauliflower", "Mustard", "Radish">>,
     symptoms |-> <<"window pane feeding", "shot holes", "skeletonised leaves", "greenish larvae on underside">>,
     treatment |-> <<"Spinosad 45 SC @ 150 ml/ha", "Emamectin benzoate 5 SG @ 200 g/ha", "Chlorfenapyr 10 SC">>,
     prevention |-> <<"Bt crops", "Pheromone traps", "Natural predators">>],
    [name |-> "Pod Borer (Gram)",
     affected_crops |-> <<"Chickpea", "Pigeonpea", "Cowpea">>,
     symptoms |-> <<"bored pods", "excreta near entry holes", "damaged seeds">>,
     treatment |-> <<"Endosulfan 35 EC @ 1.5 l/ha", "Profenofos 50 EC @ 1 l/ha">>,
     prevention |-> <<"Intercrop chickpea with coriander", "Pheromone traps", "Early sowing">>],
    [name |-> "Rust (Groundnut)",
     affected_crops |-> <<"Groundnut">>,
     symptoms |-> <<"small orange-brown pustules", "yellowing", "defoliation">>,
     treatment |-> <<"Mancozeb 75 WP @ 2.5 kg/ha", "Chlorothalonil 75 WP @ 1.5 kg/ha">>,
     prevention |-> <<"Resistant varieties", "Seed treatment with thiram", "Early sowing">>],
    [name |-> "Collar Rot",
     affected_crops |-> <<"Groundnut", "Chickpea", "Sunflower">>,
     symptoms |-> <<"rotting at collar region", "dark brown lesion", "plant collapse">>,
     treatment |-> <<"Soil drench with carbendazim 0.1%", "Thiram seed treatment">>,
     prevention |-> <<"Seed treatment", "Avoid water-logged conditions", "Crop rotation">>],
    [name |-> "White Grub",
     affected_crops |-> <<"Sugarcane", "Groundnut", "Maize", "Potato">>,
     symptoms |-> <<"plants pulled out easily", "severed roots", "yellowing", "wilting">>,
     treatment |-> <<"Chlorpyrifos 20 EC soil incorporation", "Imidacloprid 70 WS seed treatment">>,
     prevention |-> <<"Summer ploughing to expose grubs", "Light traps for adults", "Neem cake application">>],
    [name |-> "Scales",
     affected_crops |-> <<"Mango", "Citrus", "Coconut", "Grapes">>,
     symptoms |-> <<"encrusted bark/leaves", "yellowing", "sooty mould", "branch die-back">>,
     treatment |-> <<"DNOC 40 EC @ 1.5 l/ha in water", "Machine oil emulsion spray", "Dimethoate 30 EC">>,
     prevention |-> <<"Prune infested branches", "Encourage natural predators", "Ant management">>],
    [name |-> "Mango Hopper",
     affected_crops |-> <<"Mango">>,
     symptoms |-> <<"yellowing and drying of inflorescences", "honeydew secretion", "sooty mould">>,
     treatment |-> <<"Imidacloprid 17.8 SL @ 0.5 ml/l water", "Carbaryl 50 WP @ 2 g/l water">>,
     prevention |-> <<"Prune dense canopy", "Remove weeds", "Spray at panicle emergence">>],
    [name |-> "Coconut Mite (Eriophyid)",
     affected_crops |-> <<"Coconut">>,
     symptoms |-> <<"triangular brown patches on husk", "scarring", "stunted nut">>,
     treatment |-> <<"Wettable sulphur 80 WP @ 2 g/l water", "Dicofol 18.5 EC">>,
     prevention |-> <<"Avoid water stress", "Remove dried leaves", "Summer spraying">>] >>

\* The symptoms the model's caller observes, one at a time.
SymptomWords ==
    {"yellowing", "Yellowing", "wilting", "lodging", "hopperburn", "", "no-such-symptom"}

\* Overlap matching whole symptoms (s == ps) instead of substrings.
Overlap_whole_symptom(pest, symptoms_lower) ==
    LET pest_symptoms_lower ==
            {Lower(pest.symptoms[i]) : i \in DOMAIN pest.symptoms}
    IN  Cardinality(symptoms_lower \cap pest_symptoms_lower)

\* Overlap taking off one for every observed symptom the pest does not show.
Overlap_less_misses(pest, symptoms_lower) ==
    LET pest_symptoms_lower ==
            {Lower(pest.symptoms[i]) : i \in DOMAIN pest.symptoms}
        hits == {s \in symptoms_lower :
                    \E ps \in pest_symptoms_lower : Contains(ps, s)}
    IN  Cardinality(hits) - Cardinality(symptoms_lower \ hits)

\* The overlap of identify: how many of the lowercased observed symptoms are
\* contained in some lowercased symptom of the pest.
Overlap(pest, symptoms_lower) ==
    LET pest_symptoms_lower ==
            {Lower(pest.symptoms[i]) : i \in DOMAIN pest.symptoms}
    IN  Cardinality({s \in symptoms_lower :
                        \E ps \in pest_symptoms_lower : Contains(ps, s)})

RECURSIVE Scored_keeps_zero(_, _)
\* Scored without the test overlap > 0: every pest is kept.
Scored_keeps_zero(ps, symptoms_lower) ==
    IF ps = <<>> THEN <<>>
    ELSE LET overlap == Overlap(Head(ps), symptoms_lower)
         IN  << <<overlap, Head(ps)>> >> \o Scored_keeps_zero(Tail(ps), symptoms_lower)

RECURSIVE Scored(_, _)
\* The list scored of identify: (overlap, pest) of every pest with overlap > 0,
\* in the order of the catalogue.
Scored(ps, symptoms_lower) ==
    IF ps = <<>> THEN <<>>
    ELSE LET overlap == Overlap(Head(ps), symptoms_lower)
         IN  (IF overlap > 0 THEN << <<overlap, Head(ps)>> >> ELSE <<>>)
                \o Scored(Tail(ps), symptoms_lower)

RECURSIVE InsertByScore_ties_reversed(_, _)
\* InsertByScore of a sort that is not stable: x goes before its equals.
InsertByScore_ties_reversed(sorted, x) ==
    IF sorted = <<>> THEN <<x>>
    ELSE IF Head(sorted)[1] <= x[1] THEN <<x>> \o sorted
    ELSE <<Head(sorted)>> \o InsertByScore_ties_reversed(Tail(sorted), x)

RECURSIVE InsertByScore_ascending(_, _)
\* InsertByScore of a sort without reverse=True: lowest score first.
InsertByScore_ascending(sorted, x) ==
    IF sorted = <<>> THEN <<x>>
    ELSE IF Head(sorted)[1] > x[1] THEN <<x>> \o sorted
    ELSE <<Head(sorted)>> \o InsertByScore_ascending(Tail(sorted), x)

RECURSIVE InsertByScore(_, _)
\* One step of the stable sort on key=x[0], reverse=True: x goes right before
\* the first pair with a lower score, and so behind every pair with its score.
InsertByScore(sorted, x) ==
    IF sorted = <<>> THEN <<x>>
    ELSE IF Head(sorted)[1] < x[1] THEN <<x>> \o sorted
    ELSE <<Head(sorted)>> \o InsertByScore(Tail(sorted), x)

RECURSIVE SortedByScore(_)
\* scored.sort(key=lambda x: x[0], reverse=True)
SortedByScore(scored) ==
    IF scored = <<>> THEN <<>>
    ELSE InsertByScore(SortedByScore(SubSeq(scored, 1, Len(scored) - 1)),
                       scored[Len(scored)])

\* identify without scored.sort: the matching pests in catalogue order.
identify_unsorted(ps, observed) ==
    LET symptoms_lower == {Lower(observed[i]) : i \in DOMAIN observed}
        scored == Scored(ps, symptoms_lower)
    IN  [i \in DOMAIN scored |-> scored[i][2]]

\* identify scoring every entry of the observed list, without the set of
\* line 284: a symptom listed twice counts twice.
identify_counts_entries(ps, observed) ==
    LET lowered == [i \in DOMAIN observed |-> Lower(observed[i])]
        EntryOverlap(pest) ==
            Cardinality({i \in DOMAIN lowered :
                \E j \in DOMAIN pest.symptoms :
                    Contains(Lower(pest.symptoms[j]), lowered[i])})
        pairs == [i \in DOMAIN ps |-> <<EntryOverlap(ps[i]), ps[i]>>]
        Positive(pair) == pair[1] > 0
        scored == SortedByScore(SelectSeq(pairs, Positive))
    IN  [i \in DOMAIN scored |-> scored[i][2]]

\* PestDatabase.identify
identify(ps, observed) ==
    LET symptoms_lower == {Lower(observed[i]) : i \in DOMAIN observed}
        scored == SortedByScore(Scored(ps, symptoms_lower))
    IN  [i \in DOMAIN scored |-> scored[i][2]]

\* The caller notes one more observed symptom.
Observe ==
    /\ Len(symptoms) < MaxSymptoms
    /\ \E s \in SymptomWords : symptoms' = Append(symptoms, s)
    /\ call' = [op |-> "observe"]
    /\ result' = None
    /\ UNCHANGED <<store, added, snapshot, pests, words, rules>>

\* db.identify(symptoms)
Identify ==
    /\ call' = [op |-> "identify", symptoms |-> symptoms]
    /\ result' = identify(pests, symptoms)
    /\ UNCHANGED <<store, added, snapshot, pests, symptoms, words, rules>>

\* PestDatabase(): the catalogue is built from _RAW_PESTS.
InitPests ==
    /\ store = <<>>
    /\ added = <<>>
    /\ snapshot = None
    /\ pests = _RAW_PESTS
    /\ symptoms = <<>>
    /\ words = <<>>
    /\ rules = _KEYWORD_RESPONSES
    /\ call = [op |-> "init"]
    /\ result = None

NextPests == Observe \/ Identify

SpecPests == InitPests /\ [][NextPests]_vars

(***************************************************************************)
(* FarmerAssistant.                                                        *)
(***************************************************************************)
\* models.AGRICULTURAL_DISCLAIMER
AGRICULTURAL_DISCLAIMER ==
    "Verify recommendations with local agricultural experts before application."

\* The default answer of respond.
DefaultAnswer ==
    "I can help with crop prices, pest identification, fertilizers, irrigation, seeds, weather, loans, insurance, and MSP. Please describe your query in more detail or use specific commands for prices and pest identification."

\* The default sources of respond.
DefaultSources == <<"Kisan Call Centre (1800-180-1551)", "Kisan Suvidha App">>

\* The words the model's caller builds a query text from.
QueryWords ==
    {"Price", "RAIN", "drip", "water", "Minimum Support", "hello"}

\* The locations and languages the model's caller asks with.
LocationArgs == {None, Some(""), Some("Nashik")}

LanguageArgs == {"en", "Hi"}

\* The score counting every place where a keyword occurs in the query.
KeywordScore_counts_occurrences(keywords, query_lower) ==
    Cardinality({pair \in (DOMAIN keywords) \X (1..Len(query_lower)) :
        /\ pair[2] + Len(keywords[pair[1]]) - 1 <= Len(query_lower)
        /\ SubSeq(query_lower, pair[2], pair[2] + Len(keywords[pair[1]]) - 1)
                = keywords[pair[1]]})

\* score = sum(1 for kw in keywords if kw in query_lower)
KeywordScore(keywords, query_lower) ==
    Cardinality({k \in DOMAIN keywords : Contains(query_lower, keywords[k])})

RECURSIVE BestRule_last_wins(_, _, _)
\* BestRule with score >= best_score: a later rule replaces an equal one.
BestRule_last_wins(i, best, query_lower) ==
    IF i > Len(rules) THEN best
    ELSE LET rule == rules[i]
             score == KeywordScore(rule.keywords, query_lower)
         IN  IF score >= best.score /\ score > 0
             THEN BestRule_last_wins(i + 1,
                           [score |-> score, answer |-> rule.answer,
                            sources |-> rule.sources], query_lower)
             ELSE BestRule_last_wins(i + 1, best, query_lower)

RECURSIVE BestRule(_, _, _)
\* The loop of respond over the rules from index i on; best is what the loop
\* holds so far: best_score, best_answer, best_sources.
BestRule(i, best, query_lower) ==
    IF i > Len(rules) THEN best
    ELSE LET rule == rules[i]
             score == KeywordScore(rule.keywords, query_lower)
         IN  IF score > best.score
             THEN BestRule(i + 1,
                           [score |-> score, answer |-> rule.answer,
                            sources |-> rule.sources], query_lower)
             ELSE BestRule(i + 1, best, query_lower)

\* respond with best_score starting below 0: a rule that scores 0 is taken.
respond_takes_zero_score(query) ==
    LET query_lower == Lower(query.query)
        best == BestRule(1, [score |-> 0 - 1, answer |-> DefaultAnswer,
                             sources |-> DefaultSources], query_lower)
        best_answer ==
            IF Truthy(query.location)
            THEN best.answer \o " For location-specific advice in "
                    \o query.location[1]
                    \o ", contact your local Block Agriculture Officer or Krishi Vigyan Kendra."
            ELSE best.answer
    IN  [answer |-> best_answer, sources |-> best.sources,
         language |-> query.language, disclaimer |-> AGRICULTURAL_DISCLAIMER]

\* respond that leaves the disclaimer to a caller and returns none.
respond_without_disclaimer(query) ==
    LET query_lower == Lower(query.query)
        best == BestRule(1, [score |-> 0, answer |-> DefaultAnswer,
                             sources |-> DefaultSources], query_lower)
        best_answer ==
            IF Truthy(query.location)
            THEN best.answer \o " For location-specific advice in "
                    \o query.location[1]
                    \o ", contact your local Block Agriculture Officer or Krishi Vigyan Kendra."
            ELSE best.answer
    IN  [answer |-> best_answer, sources |-> best.sources,
         language |-> query.language, disclaimer |-> ""]

\* respond testing "location is not None" instead of the location's truth.
respond_location_not_none(query) ==
    LET query_lower == Lower(query.query)
        best == BestRule(1, [score |-> 0, answer |-> DefaultAnswer,
                             sources |-> DefaultSources], query_lower)
        best_answer ==
            IF query.location # None
            THEN best.answer \o " For location-specific advice in "
                    \o query.location[1]
                    \o ", contact your local Block Agriculture Officer or Krishi Vigyan Kendra."
            ELSE best.answer
    IN  [answer |-> best_answer, sources |-> best.sources,
         language |-> query.language, disclaimer |-> AGRICULTURAL_DISCLAIMER]

\* respond lowercasing the language tag as it lowercases the query text.
respond_language_lowered(query) ==
    LET query_lower == Lower(query.query)
        best == BestRule(1, [score |-> 0, answer |-> DefaultAnswer,
                             sources |-> DefaultSources], query_lower)
        best_answer ==
            IF Truthy(query.location)
            THEN best.answer \o " For location-specific advice in "
                    \o query.location[1]
                    \o ", contact your local Block Agriculture Officer or Krishi Vigyan Kendra."
            ELSE best.answer
    IN  [answer |-> best_answer, sources |-> best.sources,
         language |-> Lower(query.language), disclaimer |-> AGRICULTURAL_DISCLAIMER]

\* FarmerAssistant.respond
respond(query) ==
    LET query_lower == Lower(query.query)
        best == BestRule(1, [score |-> 0, answer |-> DefaultAnswer,
                             sources |-> DefaultSources], query_lower)
        best_answer ==
            IF Truthy(query.location)
            THEN best.answer \o " For location-specific advice in "
                    \o query.location[1]
                    \o ", contact your local Block Agriculture Officer or Krishi Vigyan Kendra."
            ELSE best.answer
    IN  [answer |-> best_answer, sources |-> best.sources,
         language |-> query.language, disclaimer |-> AGRICULTURAL_DISCLAIMER]

RECURSIVE QueryText(_)
\* The query text the caller passes: its words, separated by single spaces.
QueryText(ws) ==
    IF ws = <<>> THEN ""
    ELSE IF Len(ws) = 1 THEN ws[1]
    ELSE ws[1] \o " " \o QueryText(Tail(ws))

\* The caller adds one more word to the query text.
Say ==
    /\ Len(words) < MaxWords
    /\ \E w \in QueryWords : words' = Append(words, w)
    /\ call' = [op |-> "say"]
    /\ result' = None
    /\ UNCHANGED <<store, added, snapshot, pests, symptoms, rules>>

\* assistant.respond(FarmerQuery(query=..., language=..., location=...))
Respond ==
    /\ \E location \in LocationArgs, language \in LanguageArgs :
        LET query == [query |-> QueryText(words), language |-> language,
                      location |-> location]
        IN  /\ call' = [op |-> "respond", query |-> query]
            /\ result' = respond(query)
    /\ UNCHANGED <<store, added, snapshot, pests, symptoms, words, rules>>

\* FarmerAssistant(): the assistant has no state of its own.
InitAssistant ==
    /\ store = <<>>
    /\ added = <<>>
    /\ snapshot = None
    /\ pests = <<>>
    /\ symptoms = <<>>
    /\ words = <<>>
    /\ rules = _KEYWORD_RESPONSES
    /\ call = [op |-> "init"]
    /\ result = None

NextAssistant == Say \/ Respond

SpecAssistant == InitAssistant /\ [][NextAssistant]_vars

(***************************************************************************)
(* Properties of the price tracker.                                        *)
(***************************************************************************)
\* a and b are equal up to the case of their letters, character by character.
SameIgnoringCase(a, b) ==
    /\ Len(a) = Len(b)
    /\ \A i \in 1..Len(a) :
        LET x == Ord(SubSeq(a, i, i))
            y == Ord(SubSeq(b, i, i))
        IN  \/ x = y
            \/ x >= 65 /\ x <= 90 /\ y = x + 32
            \/ y >= 65 /\ y <= 90 /\ x = y + 32

\* How many times x occurs in seq.
Count(seq, x) == Cardinality({i \in DOMAIN seq : seq[i] = x})

\* The dates of seq never increase (newest first).
NewestFirst(seq) ==
    \A i, j \in DOMAIN seq : i < j => ~StrLess(seq[i].date, seq[j].date)

\* The dates of seq never decrease (oldest first).
OldestFirst(seq) ==
    \A i, j \in DOMAIN seq : i < j => ~StrLess(seq[j].date, seq[i].date)

\* C1: get_prices(commodity, state) returns exactly the stored records whose
\* commodity equals the argument ignoring case and, when a state is given
\* (a non-empty string; None and "" select no state filter), whose state
\* equals it ignoring case, each as often as it is stored, newest date first.
C1_GetPricesFiltersNewestFirst ==
    call.op = "get_prices" =>
        LET given == call.state # None /\ call.state[1] # ""
            Wanted(p) ==
                /\ SameIgnoringCase(p.commodity, call.commodity)
                /\ given => SameIgnoringCase(p.state, call.state[1])
        IN  /\ \A p \in MandiPrice :
                Count(result, p) = IF Wanted(p) THEN Count(store, p) ELSE 0
            /\ \A i \in DOMAIN result : result[i] \in MandiPrice
            /\ NewestFirst(result)

\* C1 witness: a state-filtered query that left a stored record out and
\* returned two records in the opposite of their insertion order.
C1_Witness ==
    /\ call.op = "get_prices"
    /\ call.state = Some("delhi")
    /\ Len(result) = 2
    /\ Len(store) = 3
    /\ StrLess(result[2].date, result[1].date)
    /\ \E i, j \in DOMAIN store :
        i < j /\ store[i] = result[2] /\ store[j] = result[1]

\* C2: price_trend(commodity, market) returns exactly the stored records
\* whose commodity and market both equal the arguments ignoring case, each
\* as often as it is stored, oldest date first.
C2_PriceTrendFiltersOldestFirst ==
    call.op = "price_trend" =>
        LET Wanted(p) ==
                /\ SameIgnoringCase(p.commodity, call.commodity)
                /\ SameIgnoringCase(p.market, call.market)
        IN  /\ \A p \in MandiPrice :
                Count(result, p) = IF Wanted(p) THEN Count(store, p) ELSE 0
            /\ \A i \in DOMAIN result : result[i] \in MandiPrice
            /\ OldestFirst(result)

\* C2 witness: a trend that left a stored record out and returned two
\* records in the opposite of their insertion order.
C2_Witness ==
    /\ call.op = "price_trend"
    /\ Len(result) = 2
    /\ Len(store) = 3
    /\ StrLess(result[1].date, result[2].date)
    /\ \E i, j \in DOMAIN store :
        i < j /\ store[i] = result[2] /\ store[j] = result[1]

\* C9 as claimed: for every state string s, the empty string included, every
\* record of get_prices(c, s) is in get_prices(c) and has a state equal to s
\* ignoring case.
C9_Original ==
    (call.op = "get_prices" /\ call.state # None) =>
        LET unfiltered == get_prices(store, call.commodity, None)
        IN  /\ \A p \in MandiPrice : Count(result, p) <= Count(unfiltered, p)
            /\ \A i \in DOMAIN result :
                SameIgnoringCase(result[i].state, call.state[1])

\* C9, amended: for every state string s, every record of get_prices(c, s) is
\* in get_prices(c); when s is not empty every returned record has a state
\* equal to s ignoring case, and when s is empty no state filter is applied:
\* get_prices(c, "") returns what get_prices(c) returns.
C9_StateFilterIsSubset ==
    (call.op = "get_prices" /\ call.state # None) =>
        LET unfiltered == get_prices(store, call.commodity, None)
        IN  /\ \A p \in MandiPrice : Count(result, p) <= Count(unfiltered, p)
            /\ \A i \in DOMAIN result : result[i] \in MandiPrice
            /\ call.state[1] # "" =>
                \A i \in DOMAIN result :
                    SameIgnoringCase(result[i].state, call.state[1])
            /\ call.state[1] = "" => result = unfiltered

\* C9 witness: a state-filtered query that returned some, not all, of the
\* records of the commodity.
C9_Witness ==
    /\ call.op = "get_prices"
    /\ call.state = Some("DELHI")
    /\ result # <<>>
    /\ Len(result) < Len(get_prices(store, call.commodity, None))

\* Spellings of the arguments that differ only in the case of letters.
CommoditySpellings == CommodityArgs \cup {"Rice", "rIcE", "wheat", "WHEAT"}

StateSpellings == StateArgs \cup {Some("Delhi"), Some("dELHi")}

\* C10: get_prices is case-insensitive in both arguments: a call whose
\* commodity and state differ from this call's only in the case of letters
\* returns the identical sequence.
C10_GetPricesIgnoresArgumentCase ==
    call.op = "get_prices" =>
        \A c \in CommoditySpellings, s \in StateSpellings :
            ( /\ SameIgnoringCase(c, call.commodity)
              /\ (s = None) = (call.state = None)
              /\ s # None => SameIgnoringCase(s[1], call.state[1]) )
            => get_prices(store, c, s) = result

\* C10 witness: an upper-case query that returned stored records, none of
\* which is stored in upper case.
C10_Witness ==
    /\ call.op = "get_prices"
    /\ call.commodity = "RICE"
    /\ call.state = Some("DELHI")
    /\ Len(result) >= 2

(***************************************************************************)
(* Properties of the farmer assistant.                                     *)
(***************************************************************************)
\* The score of every rule for the query of the last respond call: how many
\* of the rule's keywords occur in the lowercased query text.
RuleScore ==
    LET query_lower == Lower(call.query.query)
    IN  [i \in DOMAIN _KEYWORD_RESPONSES |->
            LET kws == _KEYWORD_RESPONSES[i].keywords
            IN  Cardinality({k \in DOMAIN kws : Contains(query_lower, kws[k])})]

\* No rule's keyword occurs in the query of the last respond call.
NoRuleMatches ==
    \A i \in DOMAIN _KEYWORD_RESPONSES :
        \A k \in DOMAIN _KEYWORD_RESPONSES[i].keywords :
            ~Contains(Lower(call.query.query), _KEYWORD_RESPONSES[i].keywords[k])

\* The rule the claims expect to be selected: the earliest-defined of the
\* rules with the highest score.
ExpectedRule ==
    LET score == RuleScore
    IN  CHOOSE i \in DOMAIN score :
            /\ \A j \in DOMAIN score : score[j] <= score[i]
            /\ \A j \in DOMAIN score : score[j] = score[i] => i <= j

\* The answer the claims expect to be selected, before any follow-up.
ExpectedAnswer ==
    IF NoRuleMatches THEN DefaultAnswer
    ELSE _KEYWORD_RESPONSES[ExpectedRule].answer

\* a is the beginning of b.
StartsWith(b, a) == Len(a) <= Len(b) /\ SubSeq(b, 1, Len(a)) = a

\* C3: among the rules with a score above 0, respond selects the rule with
\* the highest score, and of several rules with that score the one defined
\* earliest in the rule table: the response has its sources and begins with
\* its answer.
C3_HighestScoreEarliestRuleWins ==
    (call.op = "respond" /\ ~NoRuleMatches) =>
        LET best == ExpectedRule
        IN  /\ RuleScore[best] > 0
            /\ result.sources = _KEYWORD_RESPONSES[best].sources
            /\ StartsWith(result.answer, _KEYWORD_RESPONSES[best].answer)

\* C3 witness: two rules share the highest score and the response is the
\* earlier one's.
C3_Witness ==
    /\ call.op = "respond"
    /\ \E i, j \in DOMAIN _KEYWORD_RESPONSES :
        /\ i < j
        /\ RuleScore[i] > 0
        /\ RuleScore[i] = RuleScore[j]
        /\ \A k \in DOMAIN _KEYWORD_RESPONSES : RuleScore[k] <= RuleScore[i]
        /\ result.sources = _KEYWORD_RESPONSES[i].sources
        /\ result.sources # _KEYWORD_RESPONSES[j].sources

\* C4: when no rule's keyword occurs in the lowercased query (the empty query
\* included), respond returns the default answer and the default sources
\* (Kisan Call Centre, Kisan Suvidha App), and no rule's answer or sources.
C4_NoMatchGivesDefault ==
    (call.op = "respond" /\ NoRuleMatches) =>
        /\ StartsWith(result.answer, DefaultAnswer)
        /\ result.sources = <<"Kisan Call Centre (1800-180-1551)", "Kisan Suvidha App">>
        /\ \A i \in DOMAIN _KEYWORD_RESPONSES :
            /\ ~StartsWith(result.answer, _KEYWORD_RESPONSES[i].answer)
            /\ result.sources # _KEYWORD_RESPONSES[i].sources

\* C4 witness: a query of words that are no keyword got the default.
C4_Witness ==
    /\ call.op = "respond"
    /\ call.query.query = "hello hello"
    /\ NoRuleMatches
    /\ result.answer = DefaultAnswer

\* C5: for every query text (the empty one and text without keyword
\* included), location and language, respond returns a response with a
\* non-empty answer and the disclaimer AGRICULTURAL_DISCLAIMER, to the letter.
C5_AnswerAndDisclaimerAlways ==
    call.op = "respond" =>
        /\ result.answer # ""
        /\ result.disclaimer =
            "Verify recommendations with local agricultural experts before application."

\* C5 witness: the response to the empty query.
C5_Witness ==
    /\ call.op = "respond"
    /\ call.query.query = ""
    /\ call.query.location = None
    /\ Len(result.answer) > 0
    /\ result.disclaimer = AGRICULTURAL_DISCLAIMER

\* C8: with a non-empty location the answer is the selected answer (the
\* matched rule's or the default) followed by the follow-up sentence that
\* holds the location verbatim; with no location or an empty one it is the
\* selected answer and nothing more.
C8_LocationFollowUp ==
    call.op = "respond" =>
        LET location == call.query.location
        IN  IF location # None /\ location[1] # ""
            THEN result.answer =
                    ExpectedAnswer \o " For location-specific advice in "
                        \o location[1]
                        \o ", contact your local Block Agriculture Officer or Krishi Vigyan Kendra."
            ELSE result.answer = ExpectedAnswer

\* C8 witness: a query without keyword and with a location: the default
\* answer, then the follow-up naming the location.
C8_Witness ==
    /\ call.op = "respond"
    /\ NoRuleMatches
    /\ call.query.location = Some("Nashik")
    /\ Len(result.answer) > Len(DefaultAnswer)
    /\ Contains(result.answer, "Nashik")

(***************************************************************************)
(* Properties of the pest database.                                        *)
(***************************************************************************)
\* The elements of a sequence.
Range(seq) == {seq[i] : i \in DOMAIN seq}

\* str.upper() of ASCII text, to spell an observed symptom in another case.
RECURSIVE Upper(_)
Upper(s) ==
    IF s = "" THEN ""
    ELSE LET c == Ord(Head(s))
         IN  (IF c >= 97 /\ c <= 122 THEN Chr(c - 32) ELSE Head(s))
                \o Upper(Tail(s))

\* Some observed symptom of the last identify call, lowercased, is a
\* substring of some catalogued symptom of the pest, lowercased.
SymptomObserved(pest) ==
    \E k \in DOMAIN call.symptoms, j \in DOMAIN pest.symptoms :
        Contains(Lower(pest.symptoms[j]), Lower(call.symptoms[k]))

\* C6: identify returns a catalogue record if and only if some observed
\* symptom, lowercased, is a substring of some catalogued symptom of the
\* record, lowercased (so never a record with overlap 0), and the set of
\* returned records is the same however the observed symptoms are cased.
C6_IdentifyReturnsOverlappingPests ==
    call.op = "identify" =>
        /\ \A i \in DOMAIN pests :
            (pests[i] \in Range(result)) <=> SymptomObserved(pests[i])
        /\ Range(result) \subseteq Range(pests)
        /\ Range(identify(pests, [k \in DOMAIN call.symptoms |->
                                    Upper(call.symptoms[k])])) = Range(result)
        /\ Range(identify(pests, [k \in DOMAIN call.symptoms |->
                                    Lower(call.symptoms[k])])) = Range(result)

\* C6 witness: a symptom observed in mixed case matched a longer catalogued
\* symptom ("yellowing from leaf margins"), and other pests were left out.
C6_Witness ==
    /\ call.op = "identify"
    /\ call.symptoms = <<"Yellowing">>
    /\ \E i \in DOMAIN result : result[i].name = "Jassid (Leafhopper)"
    /\ \E i \in DOMAIN pests : pests[i] \notin Range(result)

\* The score identify ranks by: how many distinct lowercased observed
\* symptoms are contained in some lowercased symptom of the pest.
RankScore(pest) ==
    Cardinality({Lower(call.symptoms[k]) : k \in
        {k \in DOMAIN call.symptoms :
            \E j \in DOMAIN pest.symptoms :
                Contains(Lower(pest.symptoms[j]), Lower(call.symptoms[k]))}})

\* The position of a record in the catalogue.
CatalogueIndex(pest) == CHOOSE i \in DOMAIN pests : pests[i].name = pest.name

RECURSIVE RankScores(_)
\* The rank score of every record of seq.
RankScores(seq) ==
    IF seq = <<>> THEN <<>>
    ELSE <<RankScore(Head(seq))>> \o RankScores(Tail(seq))

RECURSIVE CatalogueIndexes(_)
\* The catalogue position of every record of seq.
CatalogueIndexes(seq) ==
    IF seq = <<>> THEN <<>>
    ELSE <<CatalogueIndex(Head(seq))>> \o CatalogueIndexes(Tail(seq))

\* C7: the sequence identify returns is ordered by overlap score descending,
\* and two returned records with equal scores are in catalogue order.
C7_RankedByScoreThenCatalogueOrder ==
    call.op = "identify" =>
        LET score == RankScores(result)
            index == CatalogueIndexes(result)
        IN  \A a, b \in DOMAIN result :
                a < b =>
                    \/ score[a] > score[b]
                    \/ score[a] = score[b] /\ index[a] < index[b]

\* C7 witness: a ranking where a record ranks ahead of one that is earlier in
\* the catalogue and has a lower score, and records with equal scores follow.
C7_Witness ==
    /\ call.op = "identify"
    /\ \E a, b, c \in DOMAIN result :
        /\ a < b /\ b < c
        /\ RankScore(result[a]) > RankScore(result[b])
        /\ RankScore(result[b]) = RankScore(result[c])
        /\ CatalogueIndex(result[a]) > CatalogueIndex(result[b])

(***************************************************************************)
(* The store as a history: add_price, all_prices and the caller's lists.   *)
(***************************************************************************)
\* C11: the store is append-only and never deduplicates.  After n add_price
\* calls all_prices returns exactly the n records passed, in the order they
\* were passed; a record passed k times appears k times in all_prices and in
\* every get_prices and price_trend query that matches it.
C11_AppendOnlyNoDedup ==
    /\ call.op = "all_prices" =>
        /\ Len(result.items) = Len(added)
        /\ result.items = added
    /\ call.op = "get_prices" =>
        \A i \in DOMAIN added :
            LET p == added[i]
                given == call.state # None /\ call.state[1] # ""
            IN  (/\ SameIgnoringCase(p.commodity, call.commodity)
                 /\ given => SameIgnoringCase(p.state, call.state[1]))
                => Count(result, p) = Count(added, p)
    /\ call.op = "price_trend" =>
        \A i \in DOMAIN added :
            LET p == added[i]
            IN  (/\ SameIgnoringCase(p.commodity, call.commodity)
                 /\ SameIgnoringCase(p.market, call.market))
                => Count(result, p) = Count(added, p)

\* C11 witness: all_prices after three calls of add_price, two of them with
\* the same record and another record between them.
C11_Witness ==
    /\ call.op = "all_prices"
    /\ Len(added) = 3
    /\ added[1] = added[3]
    /\ added[1] # added[2]
    /\ Count(result.items, added[1]) = 2

\* C12: all_prices returns a snapshot.  In every interleaving of add_price,
\* all_prices and the caller's clear, append and remove on a list all_prices
\* returned earlier, the store stays exactly the records added so far, in
\* order, and a later all_prices returns exactly those records.
C12_SnapshotIsolation ==
    /\ store = added
    /\ call.op = "all_prices" => result.items = added

\* C12 witness: all_prices called after the caller took a list of two
\* records, removed its first record and appended a record of its own.
C12_Witness ==
    /\ call.op = "all_prices"
    /\ Len(added) = 2
    /\ snapshot # None
    /\ Len(snapshot[1].items) = 2
    /\ snapshot[1].items[1] = added[2]
    /\ snapshot[1].items[2] \in CallerRecords
    /\ \A i \in DOMAIN added : added[i] \notin CallerRecords
    /\ result.items = added

\* C13: after any sequence of add_price calls, every stored record p is
\* returned by get_prices(p.commodity) as many times as it was added, with
\* its field values unchanged; on an empty tracker, add_price(p) followed by
\* get_prices(p.commodity) returns exactly the one-record sequence [p].
C13_AddThenGetRoundTrip ==
    call.op = "add_price" =>
        /\ \A i \in DOMAIN added :
            LET p == added[i]
            IN  Count(get_prices(store, p.commodity, None), p) = Count(added, p)
        /\ Len(added) = 1 =>
            get_prices(store, call.price.commodity, None) = <<call.price>>

\* C13 witness: a record added for the second time, after a record of
\* another commodity, comes back twice from get_prices of its own commodity.
C13_Witness ==
    /\ call.op = "add_price"
    /\ Len(added) = 3
    /\ added[3] = added[1]
    /\ added[2].commodity # added[1].commodity
    /\ Count(get_prices(store, call.price.commodity, None), call.price) = 2

\* C14: a query that matches nothing returns the empty sequence, never an
\* error, whatever the store holds (the empty store included): get_prices
\* when no stored commodity equals the argument ignoring case, price_trend
\* when no stored commodity or no stored market equals its argument ignoring
\* case.
C14_NoMatchGivesEmpty ==
    /\ call.op = "get_prices" =>
        ((\A i \in DOMAIN store : ~SameIgnoringCase(store[i].commodity, call.commodity))
            => result = <<>>)
    /\ call.op = "price_trend" =>
        (((\A i \in DOMAIN store : ~SameIgnoringCase(store[i].commodity, call.commodity))
          \/ (\A i \in DOMAIN store : ~SameIgnoringCase(store[i].market, call.market)))
            => result = <<>>)

\* C14 witness: price_trend on a full store where the market is stored but
\* the commodity is not.
C14_Witness ==
    /\ call.op = "price_trend"
    /\ Len(store) = MaxStore
    /\ \E i \in DOMAIN store : SameIgnoringCase(store[i].market, call.market)
    /\ \A i \in DOMAIN store : ~SameIgnoringCase(store[i].commodity, call.commodity)
    /\ result = <<>>

(***************************************************************************)
(* The records as objects: validation and immutability.                    *)
(***************************************************************************)
\* At least one of the three prices of fields is negative.
AnyNegative(fields) ==
    \E field \in PriceFields : fields[field] < 0

\* C15 as claimed: constructing an observation raises exactly when one of
\* its three prices is negative (zero is accepted), a rejected observation
\* is never added, and in every reachable state every stored record has all
\* three prices >= 0.
C15_Original ==
    /\ call.op = "MandiPrice" => AnyNegative(call.fields)
    /\ call.op = "add_price" => ~AnyNegative(call.fields)
    /\ \A i \in DOMAIN added : ~AnyNegative(added[i])
    /\ Len(store) = Len(added)
    /\ \A i \in DOMAIN store : ~AnyNegative(store[i])

\* C16 as claimed: once appended a record is never deleted or altered; the
\* store holds, position by position, the field values the records were
\* added with, whatever the caller does with the objects it holds.
C16_Original ==
    /\ Len(store) = Len(added)
    /\ \A i \in DOMAIN store : store[i] = added[i]

(***************************************************************************)
(* identify on lists that match nothing, on the documented examples, and   *)
(* on a list and its sub-lists.                                            *)
(***************************************************************************)
\* Every symptom of the shipped catalogue, lowercased.
CatalogueSymptoms ==
    UNION {{Lower(_RAW_PESTS[i].symptoms[j]) : j \in DOMAIN _RAW_PESTS[i].symptoms} :
            i \in DOMAIN _RAW_PESTS}

\* The observed symptom occurs, ignoring case, in no catalogued symptom.
OccursNowhere(symptom) ==
    \A ps \in CatalogueSymptoms : ~Contains(ps, Lower(symptom))

\* C17: identify is total.  For the empty list, and for a list none of whose
\* symptoms occurs (ignoring case) in any catalogued symptom, it returns the
\* empty sequence; it never raises.
C17_IdentifyTotal ==
    call.op = "identify" =>
        /\ pests = _RAW_PESTS
        /\ DOMAIN result = 1..Len(result)
        /\ call.symptoms = <<>> => result = <<>>
        /\ (\A k \in DOMAIN call.symptoms : OccursNowhere(call.symptoms[k]))
            => result = <<>>

\* C17 witness: identify of two observed symptoms that occur in no
\* catalogued symptom.
C17_Witness ==
    /\ call.op = "identify"
    /\ Len(call.symptoms) = 2
    /\ \A k \in DOMAIN call.symptoms :
        call.symptoms[k] # "" /\ OccursNowhere(call.symptoms[k])
    /\ result = <<>>

\* The two documented example lists of observed symptoms.
HopperburnExamples ==
    {<<"yellowing", "wilting", "hopperburn">>, <<"yellowing", "lodging", "hopperburn">>}

\* Some catalogued symptom of the pest, lowercased, contains "hopperburn".
HasHopperburn(pest) ==
    \E j \in DOMAIN pest.symptoms : Contains(Lower(pest.symptoms[j]), "hopperburn")

\* C18: with the shipped catalogue, identify of ["yellowing", "wilting",
\* "hopperburn"] and of ["yellowing", "lodging", "hopperburn"] returns a
\* non-empty sequence whose first record is "Brown Plant Hopper": it is the
\* only record with a symptom containing "hopperburn" and the only record
\* with the highest score.
C18_BrownPlantHopperFirst ==
    (call.op = "identify" /\ call.symptoms \in HopperburnExamples) =>
        /\ pests = _RAW_PESTS
        /\ result # <<>>
        /\ result[1].name = "Brown Plant Hopper"
        /\ \A i \in DOMAIN pests :
            HasHopperburn(pests[i]) <=> pests[i].name = "Brown Plant Hopper"
        /\ \A i \in DOMAIN pests :
            pests[i].name # "Brown Plant Hopper"
                => RankScore(pests[i]) < RankScore(result[1])

\* C18 witness: identify of the second example list, which returned Brown
\* Plant Hopper ahead of other records.
C18_Witness ==
    /\ call.op = "identify"
    /\ call.symptoms = <<"yellowing", "lodging", "hopperburn">>
    /\ Len(result) > 1
    /\ result[1].name = "Brown Plant Hopper"

\* The observed symptoms the model calls identify with, lowercased.
ObservedWords == {Lower(w) : w \in SymptomWords}

\* For every observed word, the catalogue positions of the records one of
\* whose symptoms, lowercased, contains it.
MatchTable ==
    [w \in ObservedWords |->
        {i \in DOMAIN _RAW_PESTS :
            \E j \in DOMAIN _RAW_PESTS[i].symptoms :
                Contains(Lower(_RAW_PESTS[i].symptoms[j]), w)}]

RECURSIVE ScoresOf(_, _)
\* The scores of the catalogue records from position i on under the observed
\* list: how many distinct lowercased observed symptoms match the record.
ScoresOf(i, observed) ==
    IF i > Len(_RAW_PESTS) THEN <<>>
    ELSE <<Cardinality({w \in {Lower(observed[k]) : k \in DOMAIN observed} :
                            i \in MatchTable[w]})>>
            \o ScoresOf(i + 1, observed)

\* C19 as claimed: for observed lists B and A with B a sub-list of A (B is
\* taken as a proper prefix of A: identify reads its list as a set, and every
\* list is called in every order) and any record R returned for B, if R's
\* score under A is at least its score under B, then R's position in
\* identify(A) is no worse than its position in identify(B).
C19_Original ==
    call.op = "identify" =>
        LET scoreA == ScoresOf(1, call.symptoms)
        IN  \A n \in 1..(Len(call.symptoms) - 1) :
                LET B == SubSeq(call.symptoms, 1, n)
                    forB == identify(pests, B)
                    scoreB == ScoresOf(1, B)
                IN  \A k \in DOMAIN forB :
                        LET r == CatalogueIndex(forB[k])
                        IN  scoreA[r] >= scoreB[r] =>
                                \E a \in DOMAIN result :
                                    result[a].name = forB[k].name /\ a <= k

\* C19, amended: for observed lists B and A with B a sub-list of A and any
\* record R returned for B, if R's score under A is at least its score under
\* B and no record of the catalogue gains more score from B to A than R
\* does, then R's position in identify(A) is no worse than its position in
\* identify(B).
C19_RankNoWorseWhenGainIsMaximal ==
    call.op = "identify" =>
        LET scoreA == ScoresOf(1, call.symptoms)
        IN  \A n \in 1..(Len(call.symptoms) - 1) :
                LET B == SubSeq(call.symptoms, 1, n)
                    forB == identify(pests, B)
                    scoreB == ScoresOf(1, B)
                IN  \A k \in DOMAIN forB :
                        LET r == CatalogueIndex(forB[k])
                        IN  (/\ scoreA[r] >= scoreB[r]
                             /\ \A x \in DOMAIN pests :
                                    scoreA[x] - scoreB[x] <= scoreA[r] - scoreB[r])
                            => \E a \in DOMAIN result :
                                    result[a].name = forB[k].name /\ a <= k

\* C19 witness: a second observed symptom raised a record's score by one, no
\* record gained more, and the record moved ahead of a record that ranks
\* before it under the first symptom alone.
C19_Witness ==
    /\ call.op = "identify"
    /\ Len(call.symptoms) = 2
    /\ LET scoreA == ScoresOf(1, call.symptoms)
           B == SubSeq(call.symptoms, 1, 1)
           forB == identify(pests, B)
           scoreB == ScoresOf(1, B)
       IN  \E k \in DOMAIN forB :
               LET r == CatalogueIndex(forB[k])
               IN  /\ scoreA[r] = scoreB[r] + 1
                   /\ \A x \in DOMAIN pests :
                        scoreA[x] - scoreB[x] <= scoreA[r] - scoreB[r]
                   /\ \E a \in DOMAIN result :
                        result[a].name = forB[k].name /\ a < k

(***************************************************************************)
(* PestDatabase.by_crop.                                                   *)
(***************************************************************************)
\* Every crop name of the shipped catalogue, as written there.
CatalogueCrops ==
    UNION {Range(_RAW_PESTS[i].affected_crops) : i \in DOMAIN _RAW_PESTS}

\* The crop names the model calls by_crop with: every catalogued crop as
\* written, in lower case and in upper case, parts of crop names, the empty
\* string and a crop the catalogue does not have.
CropArgs ==
    CatalogueCrops
        \cup {Lower(c) : c \in CatalogueCrops}
        \cup {Upper(c) : c \in CatalogueCrops}
        \cup {"Ric", "ice", "Millet", "", "AncientGrain"}

\* by_crop testing whether the crop name occurs inside an entry.
by_crop_substring(ps, crop_name) ==
    LET crop_lower == Lower(crop_name)
        Affected(p) ==
            \E i \in DOMAIN p.affected_crops :
                Contains(Lower(p.affected_crops[i]), crop_lower)
    IN  SelectSeq(ps, Affected)

\* PestDatabase.by_crop
by_crop(ps, crop_name) ==
    LET crop_lower == Lower(crop_name)
        Affected(p) ==
            \E i \in DOMAIN p.affected_crops :
                Lower(p.affected_crops[i]) = crop_lower
    IN  SelectSeq(ps, Affected)

\* db.by_crop(crop_name)
ByCrop ==
    /\ \E crop_name \in CropArgs :
        /\ call' = [op |-> "by_crop", crop_name |-> crop_name]
        /\ result' = by_crop(pests, crop_name)
    /\ UNCHANGED <<store, added, snapshot, pests, symptoms, words, rules>>

NextCrops == ByCrop

SpecCrops == InitPests /\ [][NextCrops]_vars

\* C20: by_crop(X) returns exactly the catalogue records whose
\* affected_crops has an entry equal to X ignoring case (the whole name, not
\* a part of it), each once, in catalogue order; a crop no record lists
\* gives the empty sequence; by_crop("Rice") includes "Brown Plant Hopper".
C20_ByCropExactIgnoringCase ==
    call.op = "by_crop" =>
        LET Wanted(p) ==
                \E i \in DOMAIN p.affected_crops :
                    SameIgnoringCase(p.affected_crops[i], call.crop_name)
            index == CatalogueIndexes(result)
        IN  /\ pests = _RAW_PESTS
            /\ \A i \in DOMAIN pests :
                Count(result, pests[i]) = IF Wanted(pests[i]) THEN 1 ELSE 0
            /\ Range(result) \subseteq Range(pests)
            /\ \A a, b \in DOMAIN result : a < b => index[a] < index[b]
            /\ (\A c \in CatalogueCrops : ~SameIgnoringCase(c, call.crop_name))
                => result = <<>>
            /\ call.crop_name = "Rice" =>
                \E a \in DOMAIN result : result[a].name = "Brown Plant Hopper"

\* C20 witness: by_crop("PEA") returned the records that list the crop Pea
\* and left out a record that lists Chickpea only.
C20_Witness ==
    /\ call.op = "by_crop"
    /\ call.crop_name = "PEA"
    /\ result # <<>>
    /\ \E i \in DOMAIN pests :
        /\ pests[i] \notin Range(result)
        /\ \E k \in DOMAIN pests[i].affected_crops :
            pests[i].affected_crops[k] = "Chickpea"

(***************************************************************************)
(* respond: the language tag, the keyword score and the rule table.        *)
(***************************************************************************)
\* C21: the response carries the language tag of the query unchanged,
\* whatever the tag is and whether a rule or the default was selected.
C21_LanguageEchoed ==
    call.op = "respond" => result.language = call.query.language

\* C21 witness: a query tagged "Hi" that a rule answered, with a location
\* follow-up, came back tagged "Hi".
C21_Witness ==
    /\ call.op = "respond"
    /\ call.query.language = "Hi"
    /\ ~NoRuleMatches
    /\ Truthy(call.query.location)
    /\ result.language = "Hi"

(***************************************************************************)
(* PestDatabase.all_pests, the caller's copy of it, and the catalogue as   *)
(* state that no call may change.                                          *)
(***************************************************************************)
\* The lists of observed symptoms the caller of this component holds from
\* the start.
CatalogueSymptomLists ==
    {<<>>, <<"Yellowing", "wilting">>}

\* all_pests returning every record twice.
all_pests_twice(ps) == [items |-> ps \o ps, is_store |-> FALSE]

\* all_pests handing out the database's own list.
all_pests_returns_catalogue(ps) == [items |-> ps, is_store |-> TRUE]

\* PestDatabase.all_pests: list(self._pests), a new list object holding the
\* records of the catalogue.
all_pests(ps) == [items |-> ps, is_store |-> FALSE]

\* list.reverse()
RECURSIVE ListReverse(_)
ListReverse(items) ==
    IF items = <<>> THEN <<>>
    ELSE ListReverse(Tail(items)) \o <<Head(items)>>

\* db.all_pests()
AllPests ==
    /\ call' = [op |-> "all_pests"]
    /\ result' = all_pests(pests)
    /\ UNCHANGED <<store, added, snapshot, pests, symptoms, words, rules>>

\* copy = db.all_pests(): the caller keeps the list it was handed.
KeepPests ==
    /\ call.op = "all_pests"
    /\ snapshot' = Some(result)
    /\ call' = [op |-> "keep_pests"]
    /\ result' = None
    /\ UNCHANGED <<store, added, pests, symptoms, words, rules>>

\* The caller's list of pests becomes items; when that list is the
\* database's own list object, the catalogue changes with it.
MutatePests(items) ==
    /\ snapshot' = Some([snapshot[1] EXCEPT !.items = items])
    /\ pests' = IF snapshot[1].is_store THEN items ELSE pests
    /\ call' = [op |-> "mutate_pests"]
    /\ result' = None
    /\ UNCHANGED <<store, added, symptoms, words, rules>>

\* copy.clear()
PestsClear ==
    /\ snapshot # None
    /\ MutatePests(<<>>)

\* copy.reverse()
PestsReverse ==
    /\ snapshot # None
    /\ MutatePests(ListReverse(snapshot[1].items))

\* PestDatabase(), with a caller that holds a list of observed symptoms.
InitCatalogue ==
    /\ store = <<>>
    /\ added = <<>>
    /\ snapshot = None
    /\ pests = _RAW_PESTS
    /\ symptoms \in CatalogueSymptomLists
    /\ words = <<>>
    /\ rules = _KEYWORD_RESPONSES
    /\ call = [op |-> "init"]
    /\ result = None

NextCatalogue ==
    \/ AllPests
    \/ KeepPests
    \/ PestsClear
    \/ PestsReverse
    \/ Identify
    \/ ByCrop

SpecCatalogue == InitCatalogue /\ [][NextCatalogue]_vars

\* C22: the shipped catalogue keeps its data invariants.  all_pests returns
\* at least 25 records, their names are pairwise distinct, and every record
\* has a non-empty affected_crops, a non-empty treatment and a non-empty
\* prevention list.
C22_CatalogueInvariants ==
    call.op = "all_pests" =>
        LET records == result.items
        IN  /\ Len(records) >= 25
            /\ \A i, j \in DOMAIN records :
                records[i].name = records[j].name => i = j
            /\ \A i \in DOMAIN records :
                /\ records[i].affected_crops # <<>>
                /\ records[i].treatment # <<>>
                /\ records[i].prevention # <<>>

\* C22 witness: all_pests returned the thirty records of the catalogue.
C22_Witness ==
    /\ call.op = "all_pests"
    /\ Len(result.items) = Len(_RAW_PESTS)
    /\ result.items[1].name = "Brown Plant Hopper"
    /\ result.items[1].treatment # <<>>

\* C23: the catalogue is read-only after construction.  After any sequence
\* of all_pests, identify and by_crop calls, and after the caller clears or
\* reorders a list all_pests returned, the catalogue is what it was right
\* after construction and all_pests returns those records in that order.
C23_CatalogueReadOnly ==
    /\ pests = _RAW_PESTS
    /\ call.op = "all_pests" => result.items = _RAW_PESTS

\* C23 witness: all_pests called while the caller holds a list that it was
\* handed earlier and has cleared.
C23_Witness ==
    /\ call.op = "all_pests"
    /\ snapshot # None
    /\ snapshot[1].items = <<>>
    /\ result.items = _RAW_PESTS

(***************************************************************************)
(* Equal dates in get_prices and price_trend.                              *)
(***************************************************************************)
\* The records of seq that get_prices(commodity, state) has to return.
WantedByGetPrices(seq, commodity, state) ==
    LET given == state # None /\ state[1] # ""
        Wanted(p) ==
            /\ SameIgnoringCase(p.commodity, commodity)
            /\ given => SameIgnoringCase(p.state, state[1])
    IN  SelectSeq(seq, Wanted)

\* The records of seq that price_trend(commodity, market) has to return.
WantedByPriceTrend(seq, commodity, market) ==
    LET Wanted(p) ==
            /\ SameIgnoringCase(p.commodity, commodity)
            /\ SameIgnoringCase(p.market, market)
    IN  SelectSeq(seq, Wanted)

\* The records of seq dated d, in the order of seq.
OnDay(seq, d) ==
    LET Dated(p) == p.date = d
    IN  SelectSeq(seq, Dated)

\* C24: records with equal dates keep their insertion order in both read
\* queries.  For every date, the records of that date in the result of
\* get_prices (newest first) and of price_trend (oldest first) are the
\* matching stored records of that date in the order they were added.
C24_EqualDatesKeepInsertionOrder ==
    /\ call.op = "get_prices" =>
        \A d \in Dates :
            OnDay(result, d)
                = OnDay(WantedByGetPrices(added, call.commodity, call.state), d)
    /\ call.op = "price_trend" =>
        \A d \in Dates :
            OnDay(result, d)
                = OnDay(WantedByPriceTrend(added, call.commodity, call.market), d)

\* C24 witness: price_trend moved the newest record, added first, behind two
\* different records of one older date, which kept the order they were
\* added in.
C24_Witness ==
    /\ call.op = "price_trend"
    /\ Len(added) = 3
    /\ result = <<added[2], added[3], added[1]>>
    /\ added[2].date = added[3].date
    /\ added[2] # added[3]
    /\ StrLess(added[2].date, added[1].date)

(***************************************************************************)
(* identify: what counts towards the score.                                *)
(***************************************************************************)
\* How many entries of the observed list of the last identify call,
\* lowercased, are contained in some lowercased symptom of the pest; an
\* entry listed twice is counted twice.
EntryScore(pest) ==
    Cardinality({k \in DOMAIN call.symptoms :
        \E j \in DOMAIN pest.symptoms :
            Contains(Lower(pest.symptoms[j]), Lower(call.symptoms[k]))})

RECURSIVE EntryScores(_)
\* The entry score of every record of seq.
EntryScores(seq) ==
    IF seq = <<>> THEN <<>>
    ELSE <<EntryScore(Head(seq))>> \o EntryScores(Tail(seq))

\* C25 as claimed: the score identify ranks by counts every matching entry
\* of the observed list, so that a symptom listed twice, or twice in
\* different letter case, counts twice: the result is in descending order of
\* that count.
C25_Original ==
    call.op = "identify" =>
        LET score == EntryScores(result)
        IN  \A a, b \in DOMAIN result : a < b => score[a] >= score[b]

RECURSIVE DistinctLowered(_)
\* The observed list lowercased, every symptom kept where it comes first.
DistinctLowered(observed) ==
    IF observed = <<>> THEN <<>>
    ELSE LET before == DistinctLowered(SubSeq(observed, 1, Len(observed) - 1))
             last == Lower(observed[Len(observed)])
         IN  IF \E i \in DOMAIN before : before[i] = last
             THEN before
             ELSE Append(before, last)

\* C25, amended: the score identify ranks by counts the distinct lowercased
\* observed symptoms that are contained in some catalogued symptom of the
\* record; a symptom listed twice, or twice in different letter case, counts
\* once.  The result is in descending order of that count, no score exceeds
\* the number of distinct lowercased observed symptoms, and a list with
\* repeated symptoms gives the same result as the list without the repeats.
C25_ScoreCountsDistinctSymptoms ==
    call.op = "identify" =>
        LET score == RankScores(result)
            distinct == DistinctLowered(call.symptoms)
        IN  /\ \A a, b \in DOMAIN result : a < b => score[a] >= score[b]
            /\ \A a \in DOMAIN result :
                score[a] >= 1 /\ score[a] <= Len(distinct)
            /\ Len(distinct) < Len(call.symptoms)
                => result = identify(pests, distinct)

\* C25 witness: "yellowing" was observed twice in different letter case, and
\* a record that matches both of these entries ranks behind a record that
\* matches one entry only.
C25_Witness ==
    /\ call.op = "identify"
    /\ \E k, m \in DOMAIN call.symptoms :
        k # m /\ call.symptoms[k] = "yellowing" /\ call.symptoms[m] = "Yellowing"
    /\ \E a, b \in DOMAIN result :
        /\ a < b
        /\ EntryScore(result[a]) = 1
        /\ EntryScore(result[b]) = 2
        /\ RankScore(result[a]) = 1
        /\ RankScore(result[b]) = 1

\* C26 as claimed: an empty observed symptom never matches; identify of a
\* list that holds nothing but the empty string returns the empty sequence.
C26_Original ==
    (/\ call.op = "identify"
     /\ call.symptoms # <<>>
     /\ \A k \in DOMAIN call.symptoms : call.symptoms[k] = "")
        => result = <<>>

\* The keyword occurs in the text as one contiguous run of characters: some
\* tail of the text begins with it.
OccursIn(text, keyword) ==
    \E n \in 0..Len(text) : StartsWith(SubSeq(text, n + 1, Len(text)), keyword)

\* How many keywords of rule i occur in the lowercased query of the last
\* respond call, each keyword counted once.
ClaimedScore(i) ==
    LET keywords == _KEYWORD_RESPONSES[i].keywords
        text == Lower(call.query.query)
    IN  Cardinality({k \in DOMAIN keywords : OccursIn(text, keywords[k])})

RECURSIVE ClaimedScores(_)
\* The claimed score of every rule from rule i on.
ClaimedScores(i) ==
    IF i > Len(_KEYWORD_RESPONSES) THEN <<>>
    ELSE <<ClaimedScore(i)>> \o ClaimedScores(i + 1)

\* C27: a rule's score in respond is the number of its keywords that occur
\* as a literal substring of the lowercased query.  A keyword counts once
\* however often it occurs, a keyword of several words matches only as one
\* contiguous phrase, and the score lies between 0 and the rule's number of
\* keywords; respond answers with the earliest rule of the highest score
\* above 0, or with the default.
C27_ScoreCountsKeywordsOnce ==
    call.op = "respond" =>
        LET score == ClaimedScores(1)
            text == Lower(call.query.query)
        IN  /\ \A i \in DOMAIN _KEYWORD_RESPONSES :
                /\ KeywordScore(_KEYWORD_RESPONSES[i].keywords, text) = score[i]
                /\ score[i] >= 0
                /\ score[i] <= Len(_KEYWORD_RESPONSES[i].keywords)
            /\ \A i \in DOMAIN _KEYWORD_RESPONSES :
                (/\ score[i] > 0
                 /\ \A j \in DOMAIN _KEYWORD_RESPONSES :
                        score[j] < score[i] \/ (score[j] = score[i] /\ i <= j))
                    => result.sources = _KEYWORD_RESPONSES[i].sources
            /\ (\A i \in DOMAIN _KEYWORD_RESPONSES : score[i] = 0)
                => result.sources = DefaultSources

\* C27 witness: "water" occurs twice and counts once, so the irrigation rule
\* ties with the price rule and the earlier price rule answers.
C27_Witness ==
    /\ call.op = "respond"
    /\ call.query.query = "water water Price"
    /\ ClaimedScore(1) = 1
    /\ ClaimedScore(4) = 1
    /\ result.sources = _KEYWORD_RESPONSES[1].sources

(***************************************************************************)
(* The caller of respond keeps a response and changes its list of sources. *)
(***************************************************************************)
MaxSources == 3

\* The words this caller builds a query text from.
ResponseWords == {"Price", "hello"}

\* The source this caller appends to the list of a response.
CallerSources == {"my notes"}

RECURSIVE BestRuleIndex(_, _, _, _)
\* The rule whose list best_sources names when the loop of respond ends: the
\* index of the rule taken last, or 0 while best_sources is the default list.
BestRuleIndex(i, best, best_score, query_lower) ==
    IF i > Len(rules) THEN best
    ELSE LET score == KeywordScore(rules[i].keywords, query_lower)
         IN  IF score > best_score
             THEN BestRuleIndex(i + 1, i, score, query_lower)
             ELSE BestRuleIndex(i + 1, best, best_score, query_lower)

\* A response that holds the list object it was given: best_sources itself.
response_sources_as_given(query) ==
    [items |-> respond(query).sources,
     rule |-> BestRuleIndex(1, 0, 0, Lower(query.query))]

\* response.sources of FarmerResponse(sources=best_sources): the list object
\* the response holds.  Validation of the list[str] field builds a new list
\* of the validated items, so it is no rule's list (rule 0).
response_sources(query) ==
    [items |-> respond(query).sources, rule |-> 0]

\* The caller adds one more word to the query text.
Ask ==
    /\ Len(words) < MaxWords
    /\ \E w \in ResponseWords : words' = Append(words, w)
    /\ call' = [op |-> "say"]
    /\ result' = None
    /\ UNCHANGED <<store, added, snapshot, pests, symptoms, rules>>

\* first = assistant.respond(q); sources = first.sources: the caller keeps
\* the query, what the response said, and the response's list of sources.
KeepResponse ==
    /\ call.op = "respond"
    /\ snapshot' = Some([query |-> call.query, response |-> result,
                         sources |-> response_sources(call.query)])
    /\ call' = [op |-> "keep_response"]
    /\ result' = None
    /\ UNCHANGED <<store, added, pests, symptoms, words, rules>>

\* The kept list of sources becomes items; when it is the list of a rule,
\* the rule table changes with it.
MutateSources(items) ==
    /\ snapshot' = Some([snapshot[1] EXCEPT !.sources.items = items])
    /\ rules' = IF snapshot[1].sources.rule > 0
                THEN [rules EXCEPT ![snapshot[1].sources.rule].sources = items]
                ELSE rules
    /\ call' = [op |-> "mutate_sources"]
    /\ result' = None
    /\ UNCHANGED <<store, added, pests, symptoms, words>>

\* sources.clear()
SourcesClear ==
    /\ snapshot # None
    /\ snapshot[1].sources.items # <<>>
    /\ MutateSources(<<>>)

\* sources.append(source)
SourcesAppend ==
    /\ snapshot # None
    /\ Len(snapshot[1].sources.items) < MaxSources
    /\ \E source \in CallerSources :
        MutateSources(Append(snapshot[1].sources.items, source))

NextResponses ==
    \/ Ask
    \/ Respond
    \/ KeepResponse
    \/ SourcesClear
    \/ SourcesAppend

SpecResponses == InitAssistant /\ [][NextResponses]_vars

\* C28: respond leaves the rule table as the module built it, and a respond
\* call for a query answers as an earlier respond call for the same query
\* did (answer, sources, language, disclaimer), whatever respond calls came
\* between, with or without location, and however the caller has changed
\* the list of sources of the earlier response.
C28_RespondIsPure ==
    /\ rules = _KEYWORD_RESPONSES
    /\ (call.op = "respond" /\ snapshot # None
            /\ call.query = snapshot[1].query) =>
           result = snapshot[1].response

\* C28 witness: the caller took the response to "Price", appended to its
\* list of sources, asked "Price" again, and was told the rule's two sources.
C28_Witness ==
    /\ call.op = "respond"
    /\ call.query.query = "Price"
    /\ snapshot # None
    /\ snapshot[1].query = call.query
    /\ snapshot[1].sources.items =
           Append(_KEYWORD_RESPONSES[1].sources, "my notes")
    /\ result.sources = _KEYWORD_RESPONSES[1].sources
    /\ result = snapshot[1].response

(***************************************************************************)
(* The caller of get_prices and price_trend and the list it was handed.    *)
(***************************************************************************)
\* The records this caller's tracker is given: rice at Azadpur on two days.
AzadpurRice ==
    {p \in MandiPrice : p.commodity = "Rice" /\ p.market = "Azadpur"}

\* A query handing out the tracker's own list when no record was left out
\* and the store is in the order asked for.
returned_list_store_if_same(st, items) ==
    [items |-> items, is_store |-> items = st]

\* return sorted(results, ...): the list object a query returns.  sorted
\* builds a new list, and results is itself a new list built by the list
\* comprehension, so the object is never self._store.
returned_list(st, items) == [items |-> items, is_store |-> FALSE]

\* tracker.add_price(price), with an observation of rice at Azadpur
AddAzadpurRice ==
    /\ Len(added) < MaxStore
    /\ \E price \in AzadpurRice :
        /\ store' = add_price(store, price)
        /\ added' = Append(added, price)
        /\ call' = [op |-> "add_price", price |-> price]
        /\ result' = None
    /\ snapshot' = IF snapshot # None /\ snapshot[1].is_store
                   THEN Some([snapshot[1] EXCEPT !.items = store'])
                   ELSE snapshot
    /\ UNCHANGED <<pests, symptoms, words, rules>>

\* found = tracker.get_prices(...) or tracker.price_trend(...): the caller
\* keeps the list it was handed.
KeepResult ==
    /\ call.op \in {"get_prices", "price_trend"}
    /\ snapshot' = Some(returned_list(store, result))
    /\ call' = [op |-> "keep_result", from |-> call.op]
    /\ result' = None
    /\ UNCHANGED <<store, added, pests, symptoms, words, rules>>

\* found.reverse()
SnapshotReverse ==
    /\ snapshot # None
    /\ MutateSnapshot(ListReverse(snapshot[1].items))

NextQueries ==
    \/ AddAzadpurRice
    \/ GetPrices
    \/ PriceTrend
    \/ AllPrices
    \/ KeepResult
    \/ SnapshotClear
    \/ SnapshotAppend
    \/ SnapshotReverse

SpecQueries == InitPrices /\ [][NextQueries]_vars

\* C29: get_prices and price_trend are read-only and return lists of their
\* own.  The store is at all times the records passed to add_price, in call
\* order, whatever queries were made and however the caller cleared, appended
\* to or reordered a list a query returned; and get_prices, price_trend and
\* all_prices return what those records alone determine.
C29_QueriesReadOnlyFreshLists ==
    /\ store = added
    /\ call.op = "get_prices" =>
           result = get_prices(added, call.commodity, call.state)
    /\ call.op = "price_trend" =>
           result = price_trend(added, call.commodity, call.market)
    /\ call.op = "all_prices" => result.items = added

\* C29 witness: the store holds two records, newest first; the caller holds
\* the list a query returned for them, with a third record appended to it;
\* and a later get_prices still returns the two records, newest first.
C29_Witness ==
    /\ call.op = "get_prices"
    /\ Len(result) = 2
    /\ result[1].date = "2026-02-21"
    /\ result[2].date = "2026-02-20"
    /\ store = result
    /\ snapshot # None
    /\ snapshot[1].items = Append(result, result[2])

(***************************************************************************)
(* identify called with a list of observed symptoms and with its sub-lists.*)
(***************************************************************************)
\* The symptoms this caller observes, one at a time.
FewSymptomWords == {"yellowing", "Yellowing", "wilting", "", "no-such-symptom"}

\* The caller notes one more observed symptom.
ObserveFew ==
    /\ Len(symptoms) < MaxSymptoms
    /\ \E s \in FewSymptomWords : symptoms' = Append(symptoms, s)
    /\ call' = [op |-> "observe"]
    /\ result' = None
    /\ UNCHANGED <<store, added, snapshot, pests, words, rules>>

NextSubLists == ObserveFew \/ Identify

SpecSubLists == InitPests /\ [][NextSubLists]_vars

\* symptoms_lower of identify for the observed list.
SymptomsLower(observed) == {Lower(observed[i]) : i \in DOMAIN observed}

\* Every record identify returns for B (forB, with the list scoredB of its
\* overlaps) is returned for A (forA, scoredA), with an overlap under A that
\* is at least its overlap under B.
NoRecordLost(forB, scoredB, forA, scoredA) ==
    /\ \A k \in DOMAIN forB : \E a \in DOMAIN forA : forA[a] = forB[k]
    /\ \A k \in DOMAIN scoredB :
        \E a \in DOMAIN scoredA :
            /\ scoredA[a][2] = scoredB[k][2]
            /\ scoredA[a][1] >= scoredB[k][1]

\* C30: if every observed symptom of list B also occurs in list A, every
\* record identify returns for B is returned for A, with an overlap under A
\* at least its overlap under B.  A is the list of the call, B each of its
\* prefixes (every list is called in every order); where A adds to the prefix
\* only symptoms the prefix already holds, the two change roles as well.
C30_MembershipMonotone ==
    call.op = "identify" =>
        LET A == call.symptoms
            scoredA == Scored(pests, SymptomsLower(A))
        IN  \A n \in 0..(Len(A) - 1) :
                LET B == SubSeq(A, 1, n)
                    forB == identify(pests, B)
                    scoredB == Scored(pests, SymptomsLower(B))
                IN  /\ NoRecordLost(forB, scoredB, result, scoredA)
                    /\ Range(A) \subseteq Range(B) =>
                           NoRecordLost(result, scoredA, forB, scoredB)

\* C30 witness: identify(["yellowing", "wilting"]) returns every record that
\* identify(["yellowing"]) returns, one of them with overlap 2 where it had
\* 1, and a record more that shows wilting only.
C30_Witness ==
    /\ call.op = "identify"
    /\ call.symptoms = <<"yellowing", "wilting">>
    /\ LET forB == identify(pests, <<"yellowing">>)
           scoredB == Scored(pests, {"yellowing"})
           scoredA == Scored(pests, {"yellowing", "wilting"})
       IN  /\ forB # <<>>
           /\ \A k \in DOMAIN forB : \E a \in DOMAIN result : result[a] = forB[k]
           /\ \E k \in DOMAIN scoredB, a \in DOMAIN scoredA :
                /\ scoredA[a][2] = scoredB[k][2]
                /\ scoredB[k][1] = 1
                /\ scoredA[a][1] = 2
           /\ \E a \in DOMAIN result : \A k \in DOMAIN forB : forB[k] # result[a]

=============================================================================
